---- MODULE Spec2Model ----
(***************************************************************************)
(* A model of the article ranking and field-mapping core of the news      *)
(* pipeline: the dot-path resolvers (core/news_filter.py _get_by_path,    *)
(* core/news_fetcher.py get_by_path), the timestamp normalizer            *)
(* (_parse_date) and the top-N ranker (filter_top_n); the response        *)
(* mapper (fetch_news) and the concurrent fan-out (fetch_latest_news);    *)
(* the configuration loader and the start of a run of main.py; the       *)
(* Discord one-liner formatter (format_one_liner); the rest of the run of *)
(* main.py with its Gemini and Discord stages (SpecRun); and the scripts  *)
(* post_filtered_to_discord.py and preview_discord_post.py (SpecPost).    *)
(*                                                                         *)
(* Python values are encoded as records tagged by k:                      *)
(*   None            [k |-> "null"]                                       *)
(*   a number        [k |-> "num",  v |-> i]                              *)
(*   a string        [k |-> "str",  v |-> <<tok, ...>>]                   *)
(*   a dict          [k |-> "dict", v |-> [keys -> values]]               *)
(*   a list          [k |-> "list", v |-> <<value, ...>>]                 *)
(*   a datetime      [k |-> "datetime", aware |-> b, t |-> hours]         *)
(* A string is the sequence of its tokens; "." is a token of its own, so  *)
(* that str.split(".") is computed and not assumed.  A dict key is the    *)
(* token sequence of the key string.  In SpecPost a string is a sequence  *)
(* of pieces that carry their number of characters.                      *)
(***************************************************************************)
EXTENDS Integers, Sequences, FiniteSets, TLC

VARIABLES
    obj,        \* SpecPath: the root object handed to a path resolver
    path,       \* SpecPath: the path argument (a str value or None)
    resolver,   \* SpecPath: which resolver ran ("none" before the call)
    ret,        \* SpecPath: the outcome of the resolver call
    articles,   \* Spec: the article list handed to filter_top_n
    response_mapping, \* Spec: the response_mapping argument
    n,          \* Spec: the limit argument
    today,      \* Spec: the date of the wall clock when the call is made
    pc,         \* Spec: "ready" before the call, "done" after it
    top,        \* Spec: the outcome of filter_top_n
    map_source,   \* SpecMap: the source configuration fetch_news looks up
    map_response, \* SpecMap: what the HTTP request of fetch_news yields
    map_pc,       \* SpecMap: "ready" before the call, "done" after it
    map_news,     \* SpecMap: the outcome of fetch_news
    fl_source,  \* SpecFetch: the source configuration of fetch_latest_news
    futures,    \* SpecFetch: the futures list, in submission order
    results,    \* SpecFetch: the results accumulator of the calling thread
    collected,  \* SpecFetch: the futures whose result() has been taken
    fl_pc,      \* SpecFetch: position of the calling thread
    fl_ret,     \* SpecFetch: the outcome of fetch_latest_news
    config_file, \* SpecMain: the configuration file (absent, not JSON, or its JSON value)
    environ,     \* SpecMain: the process environment
    loader,      \* SpecMain: the outcome of APIConfigLoader(CONFIG_PATH)
    all_sources, \* SpecMain: the outcome of get_all_sources()
    handler,     \* SpecMain: the except clause that ended the run ("none" if none)
    main_pc,     \* SpecMain: position of main.py
    news_items, \* SpecFormat: the list handed to format_one_liner
    fmt_pc,     \* SpecFormat: "ready" before the call, "done" after it
    one_liner,  \* SpecFormat: the outcome of format_one_liner
    run_config,         \* SpecRun: the configuration the loader holds
    gemini_key,         \* SpecRun: the value of GEMINI_API_KEY (None when unset)
    run_pc,             \* SpecRun: position of main.py after the loader is built
    run_sources,        \* SpecRun: the outcome of get_all_sources()
    run_idx,            \* SpecRun: the number of sources the loop has fetched
    latest_news,        \* SpecRun: the variable latest_news (Unbound before the loop assigns it)
    all_latest_news,    \* SpecRun: the variable all_latest_news
    run_returned,       \* SpecRun: what fetch_latest_news returned, call by call
    latest_news_json,   \* SpecRun: the file latest_news.json
    gemini_stage,       \* SpecRun: how far the Gemini stage got ("not_run" before it)
    filtered_news_json, \* SpecRun: the file filtered_news.json
    discord_stage,      \* SpecRun: "not_started", or "started" once the formatter is called
    run_handler,        \* SpecRun: the exception the except clause caught ("none" if none)
    po_args,      \* SpecPost: the parsed command line of post_filtered_to_discord
    po_environ,   \* SpecPost: the value of DISCORD_WEBHOOK_URL (None when unset)
    po_requests,  \* SpecPost: what the name requests is bound to ("module" or "namespace")
    po_files,     \* SpecPost: the filtered_*.json files of the directory, sorted by name
    po_pc,        \* SpecPost: position of the poster script
    po_idx,       \* SpecPost: the number of files the poster has processed
    po_built,     \* SpecPost: what the poster built for each processed file
    posts,        \* SpecPost: the payloads sent with requests.post, in order
    pv_idx,       \* SpecPost: the number of files the preview script has processed
    pv_messages   \* SpecPost: the messages the preview script printed

pathVars == <<obj, path, resolver, ret>>
rankVars == <<articles, response_mapping, n, today, pc, top>>
mapVars == <<map_source, map_response, map_pc, map_news>>
fetchVars == <<fl_source, futures, results, collected, fl_pc, fl_ret>>
mainVars == <<config_file, environ, loader, all_sources, handler, main_pc>>
fmtVars == <<news_items, fmt_pc, one_liner>>
runVars == <<run_config, gemini_key, run_pc, run_sources, run_idx, latest_news,
             all_latest_news, run_returned, latest_news_json, gemini_stage,
             filtered_news_json, discord_stage, run_handler>>
postVars == <<po_args, po_environ, po_requests, po_files, po_pc, po_idx, po_built,
              posts, pv_idx, pv_messages>>
vars == <<obj, path, resolver, ret, articles, response_mapping, n, today, pc, top,
          map_source, map_response, map_pc, map_news,
          fl_source, futures, results, collected, fl_pc, fl_ret,
          config_file, environ, loader, all_sources, handler, main_pc,
          news_items, fmt_pc, one_liner,
          run_config, gemini_key, run_pc, run_sources, run_idx, latest_news,
          all_latest_news, run_returned, latest_news_json, gemini_stage,
          filtered_news_json, discord_stage, run_handler,
          po_args, po_environ, po_requests, po_files, po_pc, po_idx, po_built,
          posts, pv_idx, pv_messages>>

----------------------------------------------------------------------------
(* Python values *)

None == [k |-> "null"]
Num(i) == [k |-> "num", v |-> i]
Str(s) == [k |-> "str", v |-> s]
Dict(d) == [k |-> "dict", v |-> d]
List(s) == [k |-> "list", v |-> s]

EmptyDict == Dict(<<>>)
EmptyList == List(<<>>)

\* isinstance(x, dict) / isinstance(x, str) / isinstance(x, list)
IsDict(x) == x.k = "dict"
IsStr(x) == x.k = "str"
IsList(x) == x.k = "list"

\* The outcome of a call: a returned value or a raised exception.
Return(v) == [exc |-> "none", val |-> v]
Raise(e) == [exc |-> e, val |-> None]

\* Python truthiness (bool(x)) of the values modelled here.
Truthy(x) ==
    CASE x.k = "null" -> FALSE
      [] x.k = "num"  -> x.v # 0
      [] x.k = "str"  -> Len(x.v) > 0
      [] x.k = "dict" -> DOMAIN x.v # {}
      [] x.k = "list" -> Len(x.v) > 0
      [] OTHER        -> TRUE

\* dict.get(key, default) on a dict value d.
DictGet(d, key, default) ==
    IF key \in DOMAIN d.v THEN d.v[key] ELSE default

----------------------------------------------------------------------------
(* str.split(".") *)

Dot == "."

\* Index of the first "." token of s, or 0 when there is none.
FirstDot(s) ==
    IF \E i \in 1..Len(s) : s[i] = Dot
    THEN CHOOSE i \in 1..Len(s) : s[i] = Dot /\ \A j \in 1..(i - 1) : s[j] # Dot
    ELSE 0

RECURSIVE Split(_)
Split(s) ==
    LET d == FirstDot(s)
    IN  IF d = 0
        THEN <<s>>
        ELSE <<SubSeq(s, 1, d - 1)>> \o Split(SubSeq(s, d + 1, Len(s)))

----------------------------------------------------------------------------
(* core/news_filter.py: _get_by_path *)

\* The loop body of _get_by_path mutated: a missing key is not detected
\* before descending (cur[p] in place of cur.get(p) with the None check).
RECURSIVE WalkNoNoneCheck(_, _)
WalkNoNoneCheck(cur, parts) ==
    IF parts = <<>>
    THEN cur
    ELSE IF ~IsDict(cur)
         THEN None
         ELSE WalkNoNoneCheck(DictGet(cur, Head(parts), EmptyDict), Tail(parts))

\* for p in parts: if not isinstance(cur, dict): return None
\*                 cur = cur.get(p); if cur is None: return None
\* return cur
RECURSIVE Walk(_, _)
Walk(cur, parts) ==
    IF parts = <<>>
    THEN cur
    ELSE IF ~IsDict(cur)
         THEN None
         ELSE LET nxt == DictGet(cur, Head(parts), None)
              IN  IF nxt = None THEN None ELSE Walk(nxt, Tail(parts))

\* _get_by_path(obj, path): path is None or a str.
GetByPathScalar(o, p) ==
    IF ~Truthy(p)
    THEN None
    ELSE Walk(o, Split(p.v))

----------------------------------------------------------------------------
(* core/news_fetcher.py: get_by_path *)

\* for part in path.split('.'): obj = obj.get(part, {})
\* A value without a .get method (anything but a dict) raises AttributeError.
RECURSIVE FetcherWalk(_, _)
FetcherWalk(cur, parts) ==
    IF parts = <<>>
    THEN Return(cur)
    ELSE IF ~IsDict(cur)
         THEN Raise("AttributeError")
         ELSE FetcherWalk(DictGet(cur, Head(parts), EmptyDict), Tail(parts))

\* get_by_path(obj, path): None has no split method.
GetByPathList(o, p) ==
    IF ~IsStr(p)
    THEN Raise("AttributeError")
    ELSE FetcherWalk(o, Split(p.v))

----------------------------------------------------------------------------
(* datetime values and dateutil.parser.parse *)

\* A datetime: naive (aware = FALSE, t = wall-clock hours since
\* 0001-01-01T00:00) or aware (aware = TRUE, t = UTC hours since then).
\* Two aware datetimes compare by their UTC instant, whatever their offsets.
Datetime(aware, t) == [k |-> "datetime", aware |-> aware, t |-> t]

\* datetime.min
DatetimeMin == Datetime(FALSE, 0)

DateTokens == {"2025-09-11", "2025-09-12"}
TimeTokens == {"T08:00", "T10:00", "T11:00", "T12:00"}
ZoneTokens == {"Z", "+01:00"}

\* Hours from 0001-01-01T00:00 to midnight of the date (24 * (ordinal - 1)).
DayHours(d) ==
    CASE d = "2025-09-11" -> 739504 * 24
      [] d = "2025-09-12" -> 739505 * 24

HourOf(t) ==
    CASE t = "T08:00" -> 8
      [] t = "T10:00" -> 10
      [] t = "T11:00" -> 11
      [] t = "T12:00" -> 12

ZoneOffset(z) ==
    CASE z = "Z" -> 0
      [] z = "+01:00" -> 1

\* dateutil.parser.parse(text) with its default argument: fields the text
\* does not give are taken from datetime.now() at midnight, so a text with
\* no date gets the date of the call; a text with a zone is aware.  Any
\* other text raises ParserError.
DateutilParse(s, clock) ==
    CASE Len(s) = 1 /\ s[1] \in DateTokens ->
            Return(Datetime(FALSE, DayHours(s[1])))
      [] Len(s) = 1 /\ s[1] \in TimeTokens ->
            Return(Datetime(FALSE, DayHours(clock) + HourOf(s[1])))
      [] Len(s) = 2 /\ s[1] \in DateTokens /\ s[2] \in TimeTokens ->
            Return(Datetime(FALSE, DayHours(s[1]) + HourOf(s[2])))
      [] Len(s) = 2 /\ s[1] \in TimeTokens /\ s[2] \in ZoneTokens ->
            Return(Datetime(TRUE, DayHours(clock) + HourOf(s[1]) - ZoneOffset(s[2])))
      [] Len(s) = 3 /\ s[1] \in DateTokens /\ s[2] \in TimeTokens /\ s[3] \in ZoneTokens ->
            Return(Datetime(TRUE, DayHours(s[1]) + HourOf(s[2]) - ZoneOffset(s[3])))
      [] OTHER -> Raise("ParserError")

\* _parse_date(value): falsy -> None; parse failure (any Exception) -> None.
\* A value that is not a str makes the parser raise TypeError, caught alike.
ParseDate(value, clock) ==
    IF ~Truthy(value)
    THEN None
    ELSE LET r == IF IsStr(value) THEN DateutilParse(value.v, clock) ELSE Raise("TypeError")
         IN  IF r.exc = "none" THEN r.val ELSE None

----------------------------------------------------------------------------
(* list.sort(key=..., reverse=...) and slicing *)

\* a < b on sort keys: datetimes by t, numbers by v.
KeyLt(a, b) == IF a.k = "datetime" THEN a.t < b.t ELSE a.v < b.v

\* datetime.__lt__ raises TypeError between a naive and an aware datetime.
Comparable(a, b) ==
    (a.k = "datetime" /\ b.k = "datetime") => a.aware = b.aware

\* The insertion rule mutated: a descending sort that is an ascending sort
\* read backwards, which puts equal keys in reverse order.
StaysBeforeTiesSwapped(keys, e, i, reverse) ==
    IF reverse THEN KeyLt(keys[i], keys[e]) ELSE ~KeyLt(keys[i], keys[e])

\* e stays before i when i is inserted: ascending keeps e when ~(key i < key e),
\* descending (reverse) keeps e when ~(key e < key i).  Equal keys keep their
\* original order both ways (list.sort is stable, also with reverse=True).
StaysBefore(keys, e, i, reverse) ==
    IF reverse THEN ~KeyLt(keys[e], keys[i]) ELSE ~KeyLt(keys[i], keys[e])

\* The stable order of the indices 1..m of keys.
RECURSIVE SortPerm(_, _, _)
SortPerm(keys, m, reverse) ==
    IF m = 0
    THEN <<>>
    ELSE LET perm == SortPerm(keys, m - 1, reverse)
             cut == Cardinality({p \in 1..Len(perm) : StaysBefore(keys, perm[p], m, reverse)})
         IN  SubSeq(perm, 1, cut) \o <<m>> \o SubSeq(perm, cut + 1, Len(perm))

\* xs.sort(key, reverse): every element is compared with another one, so a
\* list whose keys mix naive and aware datetimes raises TypeError.
ListSort(xs, keys, reverse) ==
    IF \E i, j \in 1..Len(xs) : ~Comparable(keys[i], keys[j])
    THEN Raise("TypeError")
    ELSE LET perm == SortPerm(keys, Len(xs), reverse)
         IN  Return([p \in 1..Len(xs) |-> xs[perm[p]]])

Min(a, b) == IF a < b THEN a ELSE b
Max(a, b) == IF a > b THEN a ELSE b

\* xs[:k]: a negative k counts from the end of the list.
Slice(xs, k) ==
    IF k >= 0
    THEN SubSeq(xs, 1, Min(k, Len(xs)))
    ELSE SubSeq(xs, 1, Max(Len(xs) + k, 0))

----------------------------------------------------------------------------
(* core/news_filter.py: filter_top_n *)

PublishedAtPath == <<"published_at_path">>

\* The annotation loop: one record per article, in input order.
Annotate(arts, mapping, clock) ==
    LET published_path == DictGet(mapping, PublishedAtPath, None)
    IN  [idx \in 1..Len(arts) |->
            LET raw_ts == IF Truthy(published_path)
                          THEN GetByPathScalar(arts[idx], published_path)
                          ELSE None
                parsed == IF IsStr(raw_ts) THEN ParseDate(raw_ts, clock) ELSE None
            IN  [orig_index |-> idx - 1, parsed_at |-> parsed, article |-> arts[idx]]]

\* _key(x)
SortKey(x) == IF x.parsed_at # None THEN x.parsed_at ELSE DatetimeMin

\* The ordering step mutated: the fallback sort also runs with reverse=True.
OrderFallbackReversed(annotated) ==
    LET parsed_any == \E i \in 1..Len(annotated) : annotated[i].parsed_at # None
    IN  IF parsed_any
        THEN ListSort(annotated, [i \in 1..Len(annotated) |-> SortKey(annotated[i])], TRUE)
        ELSE ListSort(annotated, [i \in 1..Len(annotated) |-> Num(annotated[i].orig_index)], TRUE)

\* The ordering step: by parsed timestamp, newest first, when any parsed;
\* by original index otherwise.
Order(annotated) ==
    LET parsed_any == \E i \in 1..Len(annotated) : annotated[i].parsed_at # None
    IN  IF parsed_any
        THEN ListSort(annotated, [i \in 1..Len(annotated) |-> SortKey(annotated[i])], TRUE)
        ELSE ListSort(annotated, [i \in 1..Len(annotated) |-> Num(annotated[i].orig_index)], FALSE)

\* filter_top_n mutated: the annotations are written into the articles and
\* the annotated articles are returned.
FilterTopNAnnotating(arts, mapping, limit, clock) ==
    LET ordered == Order(Annotate(arts, mapping, clock))
    IN  IF ordered.exc # "none"
        THEN ordered
        ELSE LET cut == Slice(ordered.val, limit)
             IN  Return(List([i \in 1..Len(cut) |->
                    Dict((<<"_orig_index">> :> Num(cut[i].orig_index))
                         @@ (<<"_parsed_at">> :> cut[i].parsed_at)
                         @@ cut[i].article.v)]))

\* filter_top_n(articles, response_mapping, n), called when the clock shows
\* the date `clock`.
FilterTopN(arts, mapping, limit, clock) ==
    LET ordered == Order(Annotate(arts, mapping, clock))
    IN  IF ordered.exc # "none"
        THEN ordered
        ELSE LET cut == Slice(ordered.val, limit)
             IN  Return(List([i \in 1..Len(cut) |-> cut[i].article]))

----------------------------------------------------------------------------
(* Bounded input domains of the path resolvers *)

MaxPathLen == 3

PathTokens == {"meta", "published", Dot}
KeyNames == {<<"meta">>, <<"published">>}

RECURSIVE SeqsUpTo(_, _)
SeqsUpTo(S, m) ==
    IF m = 0
    THEN {<<>>}
    ELSE LET shorter == SeqsUpTo(S, m - 1)
         IN  shorter \cup {Append(s, x) : s \in {t \in shorter : Len(t) = m - 1}, x \in S}

Paths == {None} \cup {Str(s) : s \in SeqsUpTo(PathTokens, MaxPathLen)}

Leaves == {None, Num(123456), Str(<<"2025-09-12", "T08:00", "Z">>),
           List(<<Num(1), Num(2), Num(3)>>)}

\* Every dict over a subset of KeyNames with values in V.
DictsOver(V) ==
    {Dict(f) : f \in UNION {[D -> V] : D \in SUBSET KeyNames}}

InnerObjects == Leaves \cup DictsOver(Leaves)
Objects == Leaves \cup DictsOver(InnerObjects)

----------------------------------------------------------------------------
(* Bounded input domains of the ranker *)

MaxArticles == 3

\* n: int = 10
DefaultLimit == 10

Limits == (-1..MaxArticles) \cup {DefaultLimit}

ClockDates == {"2025-09-11", "2025-09-12"}

\* The raw values found under the published-at key of a flat article: a
\* number, a malformed text, two naive and two aware timestamps, and a
\* time without a date.  (A nested article has no published-at key at all.)
TimestampValues ==
    {Num(123456), Str(<<"not-a-date">>),
     Str(<<"2025-09-12", "T10:00">>),
     Str(<<"2025-09-12", "T10:00", "Z">>),
     Str(<<"2025-09-12", "T12:00", "+01:00">>),
     Str(<<"2025-09-11", "T12:00">>),
     Str(<<"T10:00">>)}

\* The raw values found under meta.published of a nested article.
NestedTimestampValues == {Str(<<"2025-09-12", "T08:00", "Z">>)}

IdKey == <<"id">>
PublishedAtKey == <<"published_at">>
MetaKey == <<"meta">>
PublishedKey == <<"published">>

\* {"id": i, "published_at": raw} and {"id": i, "meta": {"published": raw}}
FlatArticle(i, raw) ==
    Dict([key \in {IdKey, PublishedAtKey} |-> IF key = IdKey THEN Num(i) ELSE raw])
NestedArticle(i, raw) ==
    Dict([key \in {IdKey, MetaKey} |->
            IF key = IdKey THEN Num(i) ELSE Dict([sub \in {PublishedKey} |-> raw])])

\* The articles that may stand at input position i (their id is i).  A
\* nested article has no published_at key and a flat one has no meta key.
ArticlesAt(i) ==
    {FlatArticle(i, raw) : raw \in TimestampValues}
    \cup {NestedArticle(i, raw) : raw \in NestedTimestampValues}

\* Every article list of exactly len articles, ids 1..len in input order.
RECURSIVE ArticleListsOfLen(_)
ArticleListsOfLen(len) ==
    IF len = 0
    THEN {<<>>}
    ELSE {Append(s, a) : s \in ArticleListsOfLen(len - 1), a \in ArticlesAt(len)}

ArticleLists == UNION {ArticleListsOfLen(len) : len \in 0..MaxArticles}

Mapping(p) == Dict([key \in {PublishedAtPath} |-> p])

Mappings ==
    {EmptyDict, Mapping(None), Mapping(Str(<<"published_at">>)),
     Mapping(Str(<<"meta", Dot, "published">>))}

----------------------------------------------------------------------------
(* The state of each component before it is used *)

IdlePath ==
    /\ obj = None
    /\ path = None
    /\ resolver = "none"
    /\ ret = Return(None)

IdleRank ==
    /\ articles = <<>>
    /\ response_mapping = EmptyDict
    /\ n = DefaultLimit
    /\ today = "2025-09-12"
    /\ pc = "ready"
    /\ top = Return(None)

IdleMap ==
    /\ map_source = None
    /\ map_response = None
    /\ map_pc = "ready"
    /\ map_news = Return(None)

IdleFetch ==
    /\ fl_source = None
    /\ futures = <<>>
    /\ results = <<>>
    /\ collected = {}
    /\ fl_pc = "start"
    /\ fl_ret = Return(None)

\* open(config_path) when no file exists at the path.
FileMissing == [k |-> "nofile"]

IdleMain ==
    /\ config_file = FileMissing
    /\ environ = EmptyDict
    /\ loader = Return(None)
    /\ all_sources = Return(None)
    /\ handler = "none"
    /\ main_pc = "start"

IdleFormat ==
    /\ news_items = <<>>
    /\ fmt_pc = "ready"
    /\ one_liner = Return(None)

\* A name that no assignment has bound yet.
Unbound == [k |-> "unbound"]

IdleRun ==
    /\ run_config = EmptyDict
    /\ gemini_key = None
    /\ run_pc = "loaded"
    /\ run_sources = Return(None)
    /\ run_idx = 0
    /\ latest_news = Unbound
    /\ all_latest_news = EmptyList
    /\ run_returned = <<>>
    /\ latest_news_json = FileMissing
    /\ gemini_stage = "not_run"
    /\ filtered_news_json = FileMissing
    /\ discord_stage = "not_started"
    /\ run_handler = "none"

IdlePost ==
    /\ po_args = [dry_run |-> FALSE, webhook |-> None, per_article |-> FALSE,
                  per_article_embed |-> FALSE]
    /\ po_environ = None
    /\ po_requests = "module"
    /\ po_files = <<>>
    /\ po_pc = "start"
    /\ po_idx = 0
    /\ po_built = <<>>
    /\ posts = <<>>
    /\ pv_idx = 0
    /\ pv_messages = <<>>

----------------------------------------------------------------------------
(* Spec: one call of filter_top_n on a drawn article list *)

Init ==
    /\ articles \in ArticleLists
    /\ response_mapping = EmptyDict
    /\ n = DefaultLimit
    /\ today \in ClockDates
    /\ pc = "ready"
    /\ top = Return(None)
    /\ IdlePath
    /\ IdleMap /\ IdleFetch /\ IdleMain /\ IdleFormat /\ IdleRun /\ IdlePost

\* out = filter_top_n(articles, mapping, limit)
CallFilterTopN ==
    /\ pc = "ready"
    /\ \E mapping \in Mappings, limit \in Limits :
          /\ response_mapping' = mapping
          /\ n' = limit
          /\ top' = FilterTopN(articles, mapping, limit, today)
    /\ pc' = "done"
    /\ UNCHANGED <<articles, today>>
    /\ UNCHANGED <<pathVars, mapVars, fetchVars, mainVars, fmtVars, runVars, postVars>>

Next == CallFilterTopN

Spec == Init /\ [][Next]_vars

----------------------------------------------------------------------------
(* SpecPath: one call of a path resolver on a drawn object and path *)

InitPath ==
    /\ obj \in Objects
    /\ path \in Paths
    /\ resolver = "none"
    /\ ret = Return(None)
    /\ IdleRank
    /\ IdleMap /\ IdleFetch /\ IdleMain /\ IdleFormat /\ IdleRun /\ IdlePost

CallGetByPathScalar ==
    /\ resolver = "none"
    /\ resolver' = "_get_by_path"
    /\ ret' = Return(GetByPathScalar(obj, path))
    /\ UNCHANGED <<obj, path>>
    /\ UNCHANGED <<rankVars, mapVars, fetchVars, mainVars, fmtVars, runVars, postVars>>

CallGetByPathList ==
    /\ resolver = "none"
    /\ resolver' = "get_by_path"
    /\ ret' = GetByPathList(obj, path)
    /\ UNCHANGED <<obj, path>>
    /\ UNCHANGED <<rankVars, mapVars, fetchVars, mainVars, fmtVars, runVars, postVars>>

NextPath == CallGetByPathScalar \/ CallGetByPathList

SpecPath == InitPath /\ [][NextPath]_vars

----------------------------------------------------------------------------
(* Properties of filter_top_n (checked under Spec) *)

\* The annotations the call computed for its input, by input position.
Stamps == Annotate(articles, response_mapping, today)
ParsedAtInput(i) == Stamps[i].parsed_at

\* The "id" of an article is its input position.
IdOf(a) == a.v[IdKey].v
ParsedAtOutput(a) == ParsedAtInput(IdOf(a))

Called == pc = "done"
Returned == Called /\ top.exc = "none"
AnyParsed == \E i \in 1..Len(articles) : ParsedAtInput(i) # None
AllParsed == \A i \in 1..Len(articles) : ParsedAtInput(i) # None
DistinctStamps ==
    \A i, j \in 1..Len(articles) : i # j => ParsedAtInput(i) # ParsedAtInput(j)

\* a is a later instant than b (two datetimes of the same kind).
Newer(a, b) == a.aware = b.aware /\ a.t > b.t

\* The raw value at published_at_path of input article i is present and is
\* not a string.
NonStringAt(i) ==
    LET p == DictGet(response_mapping, PublishedAtPath, None)
        raw == IF Truthy(p) THEN GetByPathScalar(articles[i], p) ELSE None
    IN  raw # None /\ ~IsStr(raw)

\* The position of input article i in the returned list, 0 when it is not there.
PositionOf(i) ==
    IF \E q \in 1..Len(top.val.v) : IdOf(top.val.v[q]) = i
    THEN CHOOSE q \in 1..Len(top.val.v) : IdOf(top.val.v[q]) = i
    ELSE 0

\* C1: when every article has a parsed timestamp and the timestamps are
\* pairwise distinct, filter_top_n returns a list sorted strictly descending
\* by parsed timestamp.
C1_SortedStrictlyDescending ==
    (Called /\ AllParsed /\ DistinctStamps) =>
        /\ top.exc = "none"
        /\ \A q \in 1..(Len(top.val.v) - 1) :
              Newer(ParsedAtOutput(top.val.v[q]), ParsedAtOutput(top.val.v[q + 1]))

\* C2: when at least one timestamp parses and the limit is at least the
\* input size, filter_top_n returns a list in which no article without a
\* parsed timestamp stands before an article with one.
C2_UnparsedAfterParsed ==
    (Called /\ AnyParsed /\ n >= Len(articles)) =>
        /\ top.exc = "none"
        /\ \A q, r \in 1..Len(top.val.v) :
              (q < r) => ~(ParsedAtOutput(top.val.v[q]) = None
                           /\ ParsedAtOutput(top.val.v[r]) # None)

\* C3: when at least one timestamp parses, filter_top_n returns a list in
\* which the articles without a parsed timestamp keep their input order.
C3_UnparsedKeepInputOrder ==
    (Called /\ AnyParsed) =>
        /\ top.exc = "none"
        /\ \A q, r \in 1..Len(top.val.v) :
              (q < r /\ ParsedAtOutput(top.val.v[q]) = None
                     /\ ParsedAtOutput(top.val.v[r]) = None)
                 => IdOf(top.val.v[q]) < IdOf(top.val.v[r])

\* C4: when no timestamp parses, filter_top_n returns the input in input
\* order cut at the limit: a prefix of the input, of length min(n, len) for
\* every limit n >= 0.
C4_FallbackKeepsInputOrder ==
    (Called /\ ~AnyParsed) =>
        /\ top.exc = "none"
        /\ IsList(top.val)
        /\ Len(top.val.v) <= Len(articles)
        /\ top.val.v = SubSeq(articles, 1, Len(top.val.v))
        /\ (n >= 0 => Len(top.val.v) = Min(n, Len(articles)))

\* C4 witness: a path is configured, all three values under it are malformed
\* or not strings, and the call with limit 2 returned the first two articles.
C4_Witness ==
    /\ Returned
    /\ ~AnyParsed
    /\ response_mapping = Mapping(Str(<<"published_at">>))
    /\ Len(articles) = 3
    /\ n = 2
    /\ top.val = List(<<articles[1], articles[2]>>)

\* C5: for every limit n >= 0, filter_top_n returns a list of length
\* min(n, len(articles)).
C5_LengthIsMinOfLimitAndSize ==
    (Called /\ n >= 0) =>
        /\ top.exc = "none"
        /\ Len(top.val.v) = Min(n, Len(articles))

\* C6: for every limit n <= 0, a call of filter_top_n that returns, returns
\* the empty list.
C6_NonPositiveLimitGivesEmpty ==
    (Returned /\ n <= 0) => top.val = EmptyList

\* C7: filter_top_n never raises; it returns a list.
C7_NeverRaises ==
    Called => (top.exc = "none" /\ IsList(top.val))

\* C8: an article whose value at published_at_path is not a string gets no
\* parsed timestamp and, when the limit keeps every article, stands after
\* every article with a parsed timestamp in the returned list.
C8_NonStringTreatedAsMissing ==
    (Called /\ n >= Len(articles)) =>
        \A i \in 1..Len(articles) :
            NonStringAt(i) =>
                /\ ParsedAtInput(i) = None
                /\ top.exc = "none"
                /\ \A j \in 1..Len(articles) :
                      ParsedAtInput(j) # None => PositionOf(j) < PositionOf(i)

----------------------------------------------------------------------------
(* Properties of the path resolvers (checked under SpecPath) *)

Missing == [k |-> "missing"]

\* The value reached from o by descending one key per segment; Missing when
\* a value on the way is not a mapping or lacks the key.
Reached(o, segs) ==
    LET c[i \in 0..Len(segs)] ==
            IF i = 0 THEN o
            ELSE IF c[i - 1] = Missing \/ ~IsDict(c[i - 1]) THEN Missing
            ELSE IF segs[i] \notin DOMAIN c[i - 1].v THEN Missing
            ELSE c[i - 1].v[segs[i]]
    IN  c[Len(segs)]

\* The segments joined again with "." between them.
RECURSIVE JoinDots(_)
JoinDots(segs) ==
    IF Len(segs) = 1
    THEN segs[1]
    ELSE segs[1] \o <<Dot>> \o JoinDots(Tail(segs))

\* C9: _get_by_path never raises; it returns None for an absent or empty
\* path, and otherwise the value reached by descending one key per
\* dot-separated segment, or None when a value on the way is not a mapping,
\* a key is not present, or the value reached is null.
C9_ScalarResolver ==
    (resolver = "_get_by_path") =>
        /\ ret.exc = "none"
        /\ IF path = None \/ path = Str(<<>>)
           THEN ret.val = None
           ELSE LET segs == Split(path.v)
                    r == Reached(obj, segs)
                IN  /\ JoinDots(segs) = path.v
                    /\ \A q \in 1..Len(segs) : \A x \in 1..Len(segs[q]) : segs[q][x] # Dot
                    /\ ret.val = IF r = Missing THEN None ELSE r

\* C9 witness: "meta.published" resolved on {"meta": {"published": <text>}}
\* gave the text.
C9_Witness ==
    /\ resolver = "_get_by_path"
    /\ path = Str(<<"meta", Dot, "published">>)
    /\ IsDict(obj)
    /\ ret = Return(Str(<<"2025-09-12", "T08:00", "Z">>))

\* C10: on a root mapping, get_by_path returns the list found at the dot
\* path, and returns an empty list without raising when a segment is missing
\* or the path descends through a value that is not a mapping.
C10_ListResolver ==
    (resolver = "get_by_path" /\ IsStr(path) /\ IsDict(obj)) =>
        LET r == Reached(obj, Split(path.v))
        IN  /\ IsList(r) => ret = Return(r)
            /\ r = Missing => ret = Return(EmptyList)

----------------------------------------------------------------------------
(* core/news_fetcher.py: fetch_news *)

KeyTitle == <<"title">>
KeyUrl == <<"url">>
KeyDescription == <<"description">>
KeyArticles == <<"articles">>
KeyArticlesPath == <<"articles_path">>
KeyResponseMapping == <<"response_mapping">>

\* What requests.get(endpoint, params=params) yields: a response with a
\* status code and a body (NotJson when the body does not decode as JSON),
\* or a raised ConnectionError.
NotJson == [k |-> "notjson"]
HttpResponse(status, body) == [net |-> "ok", status |-> status, body |-> body]
ConnectionFailed == [net |-> "ConnectionError", status |-> 0, body |-> NotJson]

\* response.raise_for_status() raises HTTPError for a 4xx or 5xx status.
RaisesForStatus(response) == response.status >= 400 /\ response.status < 600

\* item.get(name, default) where name = mapping.get(field, field).
ItemGet(item, name, default) ==
    IF IsStr(name) THEN DictGet(item, name.v, default) ELSE default

\* {"title": item.get(mapping.get("title", "title"), ""),
\*  "url": item.get(mapping.get("url", "url"), "")}
\* An item without a .get method (anything but a dict) raises AttributeError.
MapItem(item, mapping) ==
    IF ~IsDict(item)
    THEN Raise("AttributeError")
    ELSE Return(Dict(
            (KeyTitle :> ItemGet(item, DictGet(mapping, KeyTitle, Str(KeyTitle)), Str(<<>>)))
         @@ (KeyUrl :> ItemGet(item, DictGet(mapping, KeyUrl, Str(KeyUrl)), Str(<<>>)))))

\* The loop of fetch_news mutated: articles.insert(0, ...) in place of
\* articles.append(...).
RECURSIVE MapItemsPrepending(_, _)
MapItemsPrepending(items, mapping) ==
    IF items = <<>>
    THEN Return(EmptyList)
    ELSE LET first == MapItem(Head(items), mapping)
             rest == MapItemsPrepending(Tail(items), mapping)
         IN  IF first.exc # "none" THEN first
             ELSE IF rest.exc # "none" THEN rest
             ELSE Return(List(rest.val.v \o <<first.val>>))

\* articles = []; for item in items: articles.append({...})
RECURSIVE MapItems(_, _)
MapItems(items, mapping) ==
    IF items = <<>>
    THEN Return(EmptyList)
    ELSE LET first == MapItem(Head(items), mapping)
             rest == MapItems(Tail(items), mapping)
         IN  IF first.exc # "none" THEN first
             ELSE IF rest.exc # "none" THEN rest
             ELSE Return(List(<<first.val>> \o rest.val.v))

\* The body of the try statement of fetch_news; a Raise outcome is an
\* exception raised inside it.
FetchNewsTry(src, response) ==
    IF response.net # "ok" THEN Raise(response.net)
    ELSE IF RaisesForStatus(response) THEN Raise("HTTPError")
    ELSE IF response.body = NotJson THEN Raise("JSONDecodeError")
    ELSE LET data == response.body
             mapping == DictGet(src, KeyResponseMapping, EmptyDict)
         IN  IF ~IsDict(mapping) THEN Raise("AttributeError")
             ELSE LET articles_path == DictGet(mapping, KeyArticlesPath, Str(KeyArticles))
                      found == GetByPathList(data, articles_path)
                  IN  IF found.exc # "none" THEN found
                      ELSE LET items == IF IsList(found.val) THEN found.val.v ELSE <<>>
                               mapped == MapItems(items, mapping)
                           IN  IF mapped.exc # "none" THEN mapped
                               ELSE Return(Dict(KeyArticles :> mapped.val))

\* fetch_news mutated: the try statement has no except clause.
FetchNewsUnhandled(src, response) ==
    IF ~Truthy(src)
    THEN Return(EmptyDict)
    ELSE FetchNewsTry(src, response)

\* fetch_news(source_name, country, category), src being what get_source
\* returns for source_name and response what the request yields. The
\* endpoint and the parameters are built from src, country and category
\* before the try statement and do not enter the mapping.
\* except requests.exceptions.HTTPError: return {}
\* except Exception: return {}
FetchNews(src, response) ==
    IF ~Truthy(src)
    THEN Return(EmptyDict)
    ELSE LET body == FetchNewsTry(src, response)
         IN  IF body.exc # "none" THEN Return(EmptyDict) ELSE body

----------------------------------------------------------------------------
(* Sources, responses and items handed to fetch_news *)

MaxItems == 3

Digits == <<"1", "2", "3", "4", "5", "6", "7", "8", "9">>
TitleOf(i) == Str(<<"Title ", Digits[i]>>)
UrlOf(i) == Str(<<"https://news/", Digits[i]>>)
DescriptionOf(i) == Str(<<"About ", Digits[i]>>)

KeyPublishedAt == <<"publishedAt">>
KeyHeadline == <<"headline">>
KeyLink == <<"link">>
KeyData == <<"data">>
KeyName == <<"name">>

\* The shapes of the i-th element of a response's article list.
ItemsAt(i) ==
    { Dict((KeyTitle :> TitleOf(i)) @@ (KeyUrl :> UrlOf(i))
           @@ (KeyDescription :> DescriptionOf(i))
           @@ (KeyPublishedAt :> Str(<<"2025-09-12", "T", "10:00:00", "Z">>))),
      Dict((KeyTitle :> TitleOf(i)) @@ (KeyUrl :> UrlOf(i))),
      Dict(KeyTitle :> TitleOf(i)),
      Dict(KeyUrl :> UrlOf(i)),
      Dict((KeyTitle :> Str(<<>>)) @@ (KeyUrl :> UrlOf(i))),
      Dict((KeyTitle :> TitleOf(i)) @@ (KeyUrl :> None)),
      Dict((KeyHeadline :> TitleOf(i)) @@ (KeyLink :> UrlOf(i))),
      Num(i) }

RECURSIVE ItemListsOfLen(_)
ItemListsOfLen(len) ==
    IF len = 0
    THEN {<<>>}
    ELSE {Append(init, item) : init \in ItemListsOfLen(len - 1), item \in ItemsAt(len)}

ItemLists == UNION {ItemListsOfLen(len) : len \in 0..MaxItems}

\* NewsAPI-style and nested response bodies around an article list.
BodiesOf(items) ==
    { Dict(KeyArticles :> List(items)),
      Dict(KeyData :> Dict(KeyArticles :> List(items))) }

MapResponses ==
    { ConnectionFailed,
      HttpResponse(404, Dict(KeyArticles :> List(<<Dict((KeyTitle :> TitleOf(1)) @@ (KeyUrl :> UrlOf(1)))>>))),
      HttpResponse(500, NotJson),
      HttpResponse(200, NotJson),
      HttpResponse(200, EmptyList),
      HttpResponse(200, Dict(KeyArticles :> Dict(KeyTitle :> TitleOf(1)))) }
    \cup {HttpResponse(200, body) : body \in UNION {BodiesOf(items) : items \in ItemLists}}

SourceNamed(mapping) ==
    Dict((KeyName :> Str(<<"newsapi">>)) @@ (KeyResponseMapping :> mapping))

\* get_source returns None for an unknown name.
MapSources ==
    { None,
      Dict(KeyName :> Str(<<"newsapi">>)),
      SourceNamed(Dict((KeyTitle :> Str(KeyHeadline)) @@ (KeyUrl :> Str(KeyLink)))),
      SourceNamed(Dict((KeyArticlesPath :> Str(<<"data", Dot, "articles">>))
                       @@ (PublishedAtPath :> Str(KeyPublishedAt)))),
      SourceNamed(Dict(PublishedAtPath :> Str(KeyPublishedAt))) }

----------------------------------------------------------------------------
(* SpecMap: one call of fetch_news on a drawn source and response *)

InitMap ==
    /\ map_source \in MapSources
    /\ map_response \in MapResponses
    /\ map_pc = "ready"
    /\ map_news = Return(None)
    /\ IdlePath /\ IdleRank /\ IdleFetch /\ IdleMain /\ IdleFormat /\ IdleRun /\ IdlePost

\* news = fetch_news(source_name, country, category)
CallFetchNews ==
    /\ map_pc = "ready"
    /\ map_news' = FetchNews(map_source, map_response)
    /\ map_pc' = "done"
    /\ UNCHANGED <<map_source, map_response>>
    /\ UNCHANGED <<pathVars, rankVars, fetchVars, mainVars, fmtVars, runVars, postVars>>

NextMap == CallFetchNews

SpecMap == InitMap /\ [][NextMap]_vars

----------------------------------------------------------------------------
(* Claims about the response mapper *)

\* The response mapping fetch_news reads from the source.
MapMapping == DictGet(map_source, KeyResponseMapping, EmptyDict)

\* The source's article list: the list found in the response body at the
\* configured articles path ("articles" when none is configured).
SourceItems ==
    LET at == DictGet(MapMapping, KeyArticlesPath, Str(KeyArticles))
        found == Reached(map_response.body, Split(at.v))
    IN  IF found # Missing /\ IsList(found) THEN found.v ELSE <<>>

\* fetch_news returned a dict with an article sequence.
Mapped ==
    /\ map_pc = "done"
    /\ map_news.exc = "none"
    /\ KeyArticles \in DOMAIN map_news.val.v

MapRecords == map_news.val.v[KeyArticles].v

\* The value of a field of an item under its configured name.
Extracted(item, field) ==
    ItemGet(item, DictGet(MapMapping, field, Str(field)), None)

\* C11: no record whose extracted title is empty or absent, or whose
\* extracted url is empty or absent, appears in the article sequence
\* produced by the mapping step of fetch_news.
C11_MapperDropsIncomplete ==
    Mapped =>
        \A q \in 1..Len(MapRecords) :
            /\ Truthy(DictGet(MapRecords[q], KeyTitle, None))
            /\ Truthy(DictGet(MapRecords[q], KeyUrl, None))

\* C12: for each element of the source's article list the record produced
\* by the mapper holds the title, url and description found under the
\* configured field names and, when a published_at_path is configured, the
\* raw published-at value found at that path, so that the ranker reads from
\* the record the timestamp of the source item.
C12_RecordKeepsAllFields ==
    (Mapped /\ \A i \in 1..Len(SourceItems) : IsDict(SourceItems[i])) =>
        /\ Len(MapRecords) = Len(SourceItems)
        /\ \A q \in 1..Len(MapRecords) :
              LET item == SourceItems[q]
                  rec == MapRecords[q]
                  at == DictGet(MapMapping, PublishedAtPath, None)
              IN  /\ DictGet(rec, KeyTitle, None) = Extracted(item, KeyTitle)
                  /\ DictGet(rec, KeyUrl, None) = Extracted(item, KeyUrl)
                  /\ DictGet(rec, KeyDescription, None) = Extracted(item, KeyDescription)
                  /\ Truthy(at) => GetByPathScalar(rec, at) = GetByPathScalar(item, at)

\* C13: the mapper emits its records in the order of the elements of the
\* source's article list: the records are the extractions of source
\* elements at strictly increasing positions.
C13_MapperKeepsSourceOrder ==
    Mapped =>
        \E f \in [1..Len(MapRecords) -> 1..Len(SourceItems)] :
            /\ \A q \in 1..Len(MapRecords) :
                  /\ IsDict(SourceItems[f[q]])
                  /\ MapRecords[q].v[KeyTitle] = ItemGet(SourceItems[f[q]], DictGet(MapMapping, KeyTitle, Str(KeyTitle)), Str(<<>>))
                  /\ MapRecords[q].v[KeyUrl] = ItemGet(SourceItems[f[q]], DictGet(MapMapping, KeyUrl, Str(KeyUrl)), Str(<<>>))
            /\ \A q, r \in 1..Len(MapRecords) : q < r => f[q] < f[r]

\* The mapper returned at least two records that differ.
C13_Witness ==
    /\ Mapped
    /\ Len(SourceItems) >= 2
    /\ Len(MapRecords) >= 2
    /\ MapRecords[1] # MapRecords[2]

----------------------------------------------------------------------------
(* core/news_fetcher.py: fetch_latest_news *)

KeyCountries == <<"available_countries">>
KeyCategories == <<"available_categories">>

\* The (country, category) pairs of the comprehension
\*   for country in source["available_countries"]
\*   for category in source["available_categories"]
\* in its order; KeyError when a subscript it evaluates names an absent key
\* (the inner subscript is evaluated once per country).
Dimensions(src) ==
    IF KeyCountries \notin DOMAIN src.v
    THEN Raise("KeyError")
    ELSE LET cs == src.v[KeyCountries].v
         IN  IF cs = <<>>
             THEN Return(<<>>)
             ELSE IF KeyCategories \notin DOMAIN src.v
                  THEN Raise("KeyError")
                  ELSE LET ks == src.v[KeyCategories].v
                       IN  Return([i \in 1..(Len(cs) * Len(ks)) |->
                                     [country |-> cs[((i - 1) \div Len(ks)) + 1],
                                      category |-> ks[((i - 1) % Len(ks)) + 1]]])

\* executor.submit(fetch_for_country_and_category, country, category):
\* a future that is pending until its worker has run fetch_news. response
\* is what the worker's request yielded, news the outcome of its fetch_news
\* call, and completed the number of futures that were done before it.
Submitted(dim) ==
    [country |-> dim.country, category |-> dim.category, state |-> "pending",
     response |-> None, news |-> Return(None), completed |-> 0]

\* The iteration mutated: futures are taken as they complete
\* (concurrent.futures.as_completed) in place of list order.
NextFutureAsCompleted(futs, taken) == {i \in 1..Len(futs) : i \notin taken}

\* for future in futures: the next future is the first one of the list
\* that the loop has not reached yet.
NextFuture(futs, taken) ==
    {i \in 1..Len(futs) : i \notin taken /\ \A j \in 1..(i - 1) : j \in taken}

\* The wait mutated: the result is read without waiting for the worker.
ResultReadyAnytime(fut) == TRUE

\* future.result() blocks until the worker has completed.
ResultReady(fut) == fut.state = "done"

\* if news: results.extend(news.get("articles", []))
Extend(res, news) ==
    IF Truthy(news) THEN res \o DictGet(news, KeyArticles, EmptyList).v ELSE res

----------------------------------------------------------------------------
(* Sources and responses of fetch_latest_news *)

CountryNames == <<Str(<<"us">>), Str(<<"in">>)>>
CategoryNames == <<Str(<<"technology">>), Str(<<"business">>)>>

\* An axis of a source: the key absent, or a list of names (possibly empty).
Prefixes(names) == {SubSeq(names, 1, len) : len \in 0..Len(names)}

FetchSources ==
    {None}
    \cup {Dict(KeyName :> Str(<<"newsapi">>))}
    \cup {Dict((KeyName :> Str(<<"newsapi">>)) @@ (KeyCountries :> List(cs)))
            : cs \in Prefixes(CountryNames)}
    \cup {Dict((KeyName :> Str(<<"newsapi">>)) @@ (KeyCategories :> List(ks)))
            : ks \in Prefixes(CategoryNames)}
    \cup {Dict((KeyName :> Str(<<"newsapi">>)) @@ (KeyCountries :> List(cs))
               @@ (KeyCategories :> List(ks)))
            : cs \in Prefixes(CountryNames), ks \in Prefixes(CategoryNames)}

\* The j-th item of the response to the request of a future.
RequestItem(fut, j) ==
    Dict((KeyTitle :> Str(fut.country.v \o <<"/">> \o fut.category.v \o <<"#", Digits[j]>>))
         @@ (KeyUrl :> UrlOf(j)))

\* What the request of a future may yield: a network error, an error
\* status (with a JSON body), a 304 (which has no body), a body that is
\* not JSON, or a body with one or two articles.
FetchResponses(fut) ==
    { ConnectionFailed,
      HttpResponse(500, Dict(KeyArticles :> List(<<RequestItem(fut, 1)>>))),
      HttpResponse(304, NotJson),
      HttpResponse(200, NotJson),
      HttpResponse(200, Dict(KeyArticles :> List(<<RequestItem(fut, 1)>>))),
      HttpResponse(200, Dict(KeyArticles :> List(<<RequestItem(fut, 1), RequestItem(fut, 2)>>))) }

----------------------------------------------------------------------------
(* SpecFetch: one call of fetch_latest_news; the workers of the executor
   run concurrently with the calling thread *)

InitFetch ==
    /\ fl_source \in FetchSources
    /\ futures = <<>>
    /\ results = <<>>
    /\ collected = {}
    /\ fl_pc = "start"
    /\ fl_ret = Return(None)
    /\ IdlePath /\ IdleRank /\ IdleMap /\ IdleMain /\ IdleFormat /\ IdleRun /\ IdlePost

\* source = get_source(source_name); if not source: return []
\* results = []; the comprehension starts evaluating its iterables.
CallFetchLatestNews ==
    /\ fl_pc = "start"
    /\ IF ~Truthy(fl_source)
       THEN /\ fl_ret' = Return(EmptyList)
            /\ fl_pc' = "returned"
       ELSE LET dims == Dimensions(fl_source)
            IN  IF dims.exc # "none"
                THEN /\ fl_ret' = dims
                     /\ fl_pc' = "returned"
                ELSE /\ fl_ret' = fl_ret
                     /\ fl_pc' = IF dims.val = <<>> THEN "collecting" ELSE "submitting"
    /\ UNCHANGED <<fl_source, futures, results, collected>>
    /\ UNCHANGED <<pathVars, rankVars, mapVars, mainVars, fmtVars, runVars, postVars>>

\* One step of the comprehension: executor.submit(...) for the next pair.
Submit ==
    /\ fl_pc = "submitting"
    /\ LET dims == Dimensions(fl_source).val
       IN  /\ futures' = Append(futures, Submitted(dims[Len(futures) + 1]))
           /\ fl_pc' = IF Len(futures) + 1 = Len(dims) THEN "collecting" ELSE "submitting"
    /\ UNCHANGED <<fl_source, results, collected, fl_ret>>
    /\ UNCHANGED <<pathVars, rankVars, mapVars, mainVars, fmtVars, runVars, postVars>>

\* A worker thread runs fetch_for_country_and_category(country, category)
\* for the i-th future and completes it.
Worker(i) ==
    /\ futures[i].state = "pending"
    /\ \E response \in FetchResponses(futures[i]) :
          futures' = [futures EXCEPT ![i] =
                        [@ EXCEPT !.state = "done",
                                  !.response = response,
                                  !.news = FetchNews(fl_source, response),
                                  !.completed = Cardinality({j \in 1..Len(futures) :
                                                     futures[j].state = "done"})]]
    /\ UNCHANGED <<fl_source, results, collected, fl_pc, fl_ret>>
    /\ UNCHANGED <<pathVars, rankVars, mapVars, mainVars, fmtVars, runVars, postVars>>

\* One iteration of "for future in futures": news = future.result()
\* (an exception of the worker is raised again here);
\* if news: results.extend(news.get("articles", []))
Collect ==
    /\ fl_pc = "collecting"
    /\ \E i \in NextFuture(futures, collected) :
          /\ ResultReady(futures[i])
          /\ collected' = collected \cup {i}
          /\ IF futures[i].news.exc # "none"
             THEN /\ fl_ret' = futures[i].news
                  /\ fl_pc' = "returned"
                  /\ results' = results
             ELSE /\ results' = Extend(results, futures[i].news.val)
                  /\ UNCHANGED <<fl_ret, fl_pc>>
    /\ UNCHANGED <<fl_source, futures>>
    /\ UNCHANGED <<pathVars, rankVars, mapVars, mainVars, fmtVars, runVars, postVars>>

\* The loop is over; the with statement waits for the workers; return results
ReturnResults ==
    /\ fl_pc = "collecting"
    /\ collected = 1..Len(futures)
    /\ \A i \in 1..Len(futures) : futures[i].state = "done"
    /\ fl_ret' = Return(List(results))
    /\ fl_pc' = "returned"
    /\ UNCHANGED <<fl_source, futures, results, collected>>
    /\ UNCHANGED <<pathVars, rankVars, mapVars, mainVars, fmtVars, runVars, postVars>>

NextFetch ==
    \/ CallFetchLatestNews
    \/ Submit
    \/ \E i \in 1..Len(futures) : Worker(i)
    \/ Collect
    \/ ReturnResults

SpecFetch == InitFetch /\ [][NextFetch]_vars

----------------------------------------------------------------------------
(* Claims about fetch_latest_news *)

\* fetch_latest_news found its source and has ended, by return or raise.
FetchEnded == fl_pc = "returned" /\ Truthy(fl_source)

\* fetch_latest_news found its source and returned a value.
FetchReturned == FetchEnded /\ fl_ret.exc = "none"

\* The article sequence the i-th request produced: the "articles" of what
\* its fetch_news call returned, empty when it returned none.
PerRequest(i) ==
    LET news == futures[i].news.val
    IN  IF IsDict(news) /\ KeyArticles \in DOMAIN news.v
        THEN news.v[KeyArticles].v
        ELSE <<>>

\* The per-request sequences of the futures in taken among the first k,
\* concatenated in submission order.
RECURSIVE MergedUpTo(_, _)
MergedUpTo(k, taken) ==
    IF k = 0
    THEN <<>>
    ELSE MergedUpTo(k - 1, taken) \o (IF k \in taken THEN PerRequest(k) ELSE <<>>)

\* The position of a name on an axis of the source.
AxisPos(key, name) ==
    CHOOSE p \in 1..Len(fl_source.v[key].v) : fl_source.v[key].v[p] = name

\* C14: whatever the interleaving and the completion order of the
\* requests, the sequence fetch_latest_news returns is the concatenation of
\* the per-request article sequences in submission order, each in its own
\* order, and the submission order is countries outer, categories inner.
C14_ConcatenationInSubmissionOrder ==
    FetchReturned =>
        /\ fl_ret.val = List(MergedUpTo(Len(futures), 1..Len(futures)))
        /\ \A i, j \in 1..Len(futures) :
              i < j =>
                 LET ci == AxisPos(KeyCountries, futures[i].country)
                     cj == AxisPos(KeyCountries, futures[j].country)
                     ki == AxisPos(KeyCategories, futures[i].category)
                     kj == AxisPos(KeyCategories, futures[j].category)
                 IN  ci < cj \/ (ci = cj /\ ki < kj)

\* The call returned after a later request completed before an earlier
\* one, both with articles.
C14_Witness ==
    /\ FetchReturned
    /\ \E i, j \in 1..Len(futures) :
          /\ i < j
          /\ futures[j].completed < futures[i].completed
          /\ Len(PerRequest(i)) = 2
          /\ Len(PerRequest(j)) = 1

\* The request of the i-th future failed: network error, a status that is
\* not 2xx, or a body that is not JSON.
Failed(i) ==
    /\ futures[i].state = "done"
    /\ LET r == futures[i].response
       IN  \/ r.net # "ok"
           \/ r.status < 200
           \/ r.status >= 300
           \/ r.body = NotJson

\* The record carries the title of an article of the i-th request.
OfRequest(rec, i) ==
    /\ IsStr(rec.v[KeyTitle])
    /\ SubSeq(rec.v[KeyTitle].v, 1, 3)
          = futures[i].country.v \o <<"/">> \o futures[i].category.v

Configured(key) == key \in DOMAIN fl_source.v /\ fl_source.v[key].v # <<>>

\* The values a request takes on an axis: those configured, or none.
AxisValues(key) ==
    IF Configured(key)
    THEN {fl_source.v[key].v[p] : p \in 1..Len(fl_source.v[key].v)}
    ELSE {None}

\* C16: the requests fetch_latest_news issues for a source are one per
\* (country, category) pair when both axes are configured, one per value of
\* the configured axis when only one is, and exactly one when neither is.
C16_RequestSet ==
    FetchEnded =>
        /\ fl_ret.exc = "none"
        /\ Len(futures) = Cardinality(AxisValues(KeyCountries)) * Cardinality(AxisValues(KeyCategories))
        /\ {<<futures[i].country, futures[i].category>> : i \in 1..Len(futures)}
              = AxisValues(KeyCountries) \X AxisValues(KeyCategories)

----------------------------------------------------------------------------
(* core/api_config_loader.py: APIConfigLoader *)

KeySources == <<"sources">>
KeyApiKeyEnv == <<"api_key_env">>
KeyApiKey == <<"api_key">>

\* os.getenv(name): None for a variable that is not set.
GetEnv(env, name) ==
    IF IsStr(name) THEN DictGet(env, name.v, None) ELSE None

\* The loop of _load_config mutated: a missing key is stored and the loop
\* goes on (no "if not source['api_key']: raise ValueError").
RECURSIVE LoadSourcesUnchecked(_, _)
LoadSourcesUnchecked(srcs, env) ==
    IF srcs = <<>>
    THEN Return(EmptyList)
    ELSE LET head == Head(srcs)
             keyed == IF Truthy(DictGet(head, KeyApiKeyEnv, None))
                      THEN Dict((KeyApiKey :> GetEnv(env, head.v[KeyApiKeyEnv])) @@ head.v)
                      ELSE head
         IN  Return(List(<<keyed>> \o LoadSourcesUnchecked(Tail(srcs), env).val.v))

\* for source in config["sources"]:
\*     if source.get("api_key_env"):
\*         source["api_key"] = os.getenv(source["api_key_env"])
\*         if not source["api_key"]: raise ValueError
RECURSIVE LoadSources(_, _)
LoadSources(srcs, env) ==
    IF srcs = <<>>
    THEN Return(EmptyList)
    ELSE LET head == Head(srcs)
         IN  IF Truthy(DictGet(head, KeyApiKeyEnv, None))
             THEN LET api_key == GetEnv(env, head.v[KeyApiKeyEnv])
                  IN  IF ~Truthy(api_key)
                      THEN Raise("ValueError")
                      ELSE LET rest == LoadSources(Tail(srcs), env)
                           IN  IF rest.exc # "none" THEN rest
                               ELSE Return(List(<<Dict((KeyApiKey :> api_key) @@ head.v)>>
                                                \o rest.val.v))
             ELSE LET rest == LoadSources(Tail(srcs), env)
                  IN  IF rest.exc # "none" THEN rest
                      ELSE Return(List(<<head>> \o rest.val.v))

\* APIConfigLoader(config_path): self.config = self._load_config().
\* open raises FileNotFoundError, json.load raises JSONDecodeError; both
\* are logged and raised again, and ValueError is not caught.
LoadConfig(file, env) ==
    IF file = FileMissing THEN Raise("FileNotFoundError")
    ELSE IF file = NotJson THEN Raise("JSONDecodeError")
    ELSE LET loaded == LoadSources(file.v[KeySources].v, env)
         IN  IF loaded.exc # "none" THEN loaded
             ELSE Return(Dict((KeySources :> loaded.val) @@ file.v))

\* The methods the class APIConfigLoader defines.
LoaderMethods == {"__init__", "_load_config", "get_source"}

\* api_config_loader.<name>(): the attribute lookup raises AttributeError
\* for a name that neither the instance nor the class defines. Only the
\* lookup is modelled: main.py calls no method that the class defines.
CallLoader(ldr, name) ==
    IF name \notin LoaderMethods
    THEN Raise("AttributeError")
    ELSE Return(None)

----------------------------------------------------------------------------
(* Configuration files and environments *)

MaxSources == 2

EnvNames == {<<"NEWSAPI_KEY">>, <<"GNEWS_KEY">>}

\* Each variable is unset, empty or set.
Environs ==
    {Dict(e) : e \in UNION {[S -> {Str(<<>>), Str(<<"secret">>)}] : S \in SUBSET EnvNames}}

\* The i-th source of a configuration: without api_key_env, with an empty
\* one, or naming a variable.
SourcesAt(i) ==
    {Dict(KeyName :> Str(<<"source ", Digits[i]>>))}
    \cup {Dict((KeyName :> Str(<<"source ", Digits[i]>>)) @@ (KeyApiKeyEnv :> Str(<<>>)))}
    \cup {Dict((KeyName :> Str(<<"source ", Digits[i]>>)) @@ (KeyApiKeyEnv :> Str(name)))
            : name \in EnvNames}

RECURSIVE SourceListsOfLen(_)
SourceListsOfLen(len) ==
    IF len = 0
    THEN {<<>>}
    ELSE {Append(init, src) : init \in SourceListsOfLen(len - 1), src \in SourcesAt(len)}

ConfigFiles ==
    {FileMissing, NotJson}
    \cup {Dict(KeySources :> List(srcs))
            : srcs \in UNION {SourceListsOfLen(len) : len \in 0..MaxSources}}

----------------------------------------------------------------------------
(* SpecMain: one run of main.py *)

InitMain ==
    /\ config_file \in ConfigFiles
    /\ environ \in Environs
    /\ loader = Return(None)
    /\ all_sources = Return(None)
    /\ handler = "none"
    /\ main_pc = "start"
    /\ IdlePath /\ IdleRank /\ IdleMap /\ IdleFetch /\ IdleFormat /\ IdleRun /\ IdlePost

\* api_config_loader = APIConfigLoader(CONFIG_PATH)
\* news_fetcher = NewsFetcher(api_config_loader); all_latest_news = []
ConstructLoader ==
    /\ main_pc = "start"
    /\ loader' = LoadConfig(config_file, environ)
    /\ main_pc' = IF loader'.exc # "none" THEN "raised" ELSE "loaded"
    /\ UNCHANGED <<config_file, environ, all_sources, handler>>
    /\ UNCHANGED <<pathVars, rankVars, mapVars, fetchVars, fmtVars, runVars, postVars>>

\* for source in api_config_loader.get_all_sources():
GetAllSources ==
    /\ main_pc = "loaded"
    /\ all_sources' = CallLoader(loader.val, "get_all_sources")
    /\ main_pc' = IF all_sources'.exc # "none" THEN "raised" ELSE "fetching"
    /\ UNCHANGED <<config_file, environ, loader, handler>>
    /\ UNCHANGED <<pathVars, rankVars, mapVars, fetchVars, fmtVars, runVars, postVars>>

\* except FileNotFoundError: log; except Exception: log. The run ends.
HandleException ==
    /\ main_pc = "raised"
    /\ LET exc == IF loader.exc # "none" THEN loader.exc ELSE all_sources.exc
       IN  handler' = IF exc = "FileNotFoundError" THEN "FileNotFoundError" ELSE "Exception"
    /\ main_pc' = "finished"
    /\ UNCHANGED <<config_file, environ, loader, all_sources>>
    /\ UNCHANGED <<pathVars, rankVars, mapVars, fetchVars, fmtVars, runVars, postVars>>

NextMain ==
    \/ ConstructLoader
    \/ GetAllSources
    \/ HandleException

SpecMain == InitMain /\ [][NextMain]_vars

----------------------------------------------------------------------------
(* Claims about the configuration loader and the run *)

\* The sources the configuration file lists.
ConfiguredSources == config_file.v[KeySources].v

\* The file is JSON and one of its sources names an api_key_env whose
\* environment variable is unset or empty.
KeyMissing ==
    /\ IsDict(config_file)
    /\ \E i \in 1..Len(ConfiguredSources) :
          LET name == DictGet(ConfiguredSources[i], KeyApiKeyEnv, Str(<<>>))
          IN  /\ name.v # <<>>
              /\ \/ name.v \notin DOMAIN environ.v
                 \/ environ.v[name.v] = Str(<<>>)

\* C18: when the configuration file is missing, or a source names an
\* api_key_env whose variable is unset or empty, the construction of
\* APIConfigLoader raises (FileNotFoundError, ValueError) and the run goes
\* on to no later step: it never asks for the sources, so it performs no
\* fetch, save, Gemini or Discord stage, and it ends in an except clause.
C18_ConfigFailureAbortsRun ==
    (main_pc # "start" /\ (config_file = FileMissing \/ KeyMissing)) =>
        /\ loader.exc = IF config_file = FileMissing THEN "FileNotFoundError" ELSE "ValueError"
        /\ main_pc \in {"raised", "finished"}
        /\ all_sources = Return(None)
        /\ main_pc = "finished" =>
              handler = IF config_file = FileMissing THEN "FileNotFoundError" ELSE "Exception"

\* The run ended after the second source's key was found missing.
C18_Witness ==
    /\ main_pc = "finished"
    /\ KeyMissing
    /\ Len(ConfiguredSources) = 2
    /\ Truthy(DictGet(ConfiguredSources[1], KeyApiKeyEnv, None))
    /\ Truthy(GetEnv(environ, ConfiguredSources[1].v[KeyApiKeyEnv]))
    /\ loader.exc = "ValueError"

\* C19: get_all_sources returns a list holding every source of the loaded
\* configuration, as many as the configuration lists, for main.py to
\* iterate.
C19_GetAllSourcesReturnsEverySource ==
    (main_pc \in {"fetching", "raised", "finished"} /\ loader.exc = "none") =>
        /\ all_sources.exc = "none"
        /\ IsList(all_sources.val)
        /\ Len(all_sources.val.v) = Len(ConfiguredSources)
        /\ \A i \in 1..Len(ConfiguredSources) :
              all_sources.val.v[i] = loader.val.v[KeySources].v[i]

----------------------------------------------------------------------------
(* core/discord_poster.py: format_one_liner *)

KeyEmoji == <<"emoji">>

\* The default of item.get("emoji", ...): the newspaper character U+1F4F0,
\* written here by its Discord short name.
DefaultEmoji == Str(<<":newspaper:">>)

\* The text an f-string puts in place of {x}: str(x).
Format(x) ==
    CASE x.k = "str"  -> x.v
      [] x.k = "null" -> <<"None">>
      [] OTHER        -> <<"<object>">>

\* The skip test mutated: "if not title and not url" in place of
\* "if not title or not url".
LinesOfEitherField(item) ==
    LET title == DictGet(item, KeyTitle, None)
        url == DictGet(item, KeyUrl, None)
        emoji == DictGet(item, KeyEmoji, DefaultEmoji)
    IN  IF ~Truthy(title) /\ ~Truthy(url)
        THEN <<>>
        ELSE <<Format(emoji) \o <<" [">> \o Format(title) \o <<"](">> \o Format(url) \o <<")">>>>

\* One iteration of the loop: the lines it appends for an item.
\* title = item.get("title"); url = item.get("url")
\* emoji = item.get("emoji", "\U0001F4F0")
\* if not title or not url: continue
\* lines.append(f"{emoji} [{title}]({url})")
LinesOf(item) ==
    LET title == DictGet(item, KeyTitle, None)
        url == DictGet(item, KeyUrl, None)
        emoji == DictGet(item, KeyEmoji, DefaultEmoji)
    IN  IF ~Truthy(title) \/ ~Truthy(url)
        THEN <<>>
        ELSE <<Format(emoji) \o <<" [">> \o Format(title) \o <<"](">> \o Format(url) \o <<")">>>>

\* lines = []; for item in news_items: ...
RECURSIVE FormatLines(_)
FormatLines(items) ==
    IF items = <<>>
    THEN <<>>
    ELSE LinesOf(Head(items)) \o FormatLines(Tail(items))

\* "\n".join(lines)
RECURSIVE JoinLines(_)
JoinLines(lines) ==
    IF lines = <<>> THEN <<>>
    ELSE IF Len(lines) = 1 THEN lines[1]
    ELSE lines[1] \o <<"\n">> \o JoinLines(Tail(lines))

\* format_one_liner(news_items)
FormatOneLiner(items) == Return(Str(JoinLines(FormatLines(items))))

----------------------------------------------------------------------------
(* Items handed to format_one_liner *)

MaxNews == 3

\* The shapes of the i-th item: complete with an emoji, without one, with
\* a null one; the url or the title absent, empty or null; no field at all.
NewsAt(i) ==
    { Dict((KeyTitle :> TitleOf(i)) @@ (KeyUrl :> UrlOf(i)) @@ (KeyEmoji :> Str(<<":fire:">>))),
      Dict((KeyTitle :> TitleOf(i)) @@ (KeyUrl :> UrlOf(i))),
      Dict((KeyTitle :> TitleOf(i)) @@ (KeyUrl :> UrlOf(i)) @@ (KeyEmoji :> None)),
      Dict((KeyTitle :> TitleOf(i)) @@ (KeyEmoji :> Str(<<":fire:">>))),
      Dict(KeyUrl :> UrlOf(i)),
      Dict((KeyTitle :> Str(<<>>)) @@ (KeyUrl :> UrlOf(i))),
      Dict((KeyTitle :> TitleOf(i)) @@ (KeyUrl :> None)),
      EmptyDict }

RECURSIVE NewsListsOfLen(_)
NewsListsOfLen(len) ==
    IF len = 0
    THEN {<<>>}
    ELSE {Append(init, item) : init \in NewsListsOfLen(len - 1), item \in NewsAt(len)}

NewsLists == UNION {NewsListsOfLen(len) : len \in 0..MaxNews}

----------------------------------------------------------------------------
(* SpecFormat: one call of format_one_liner on a drawn list *)

InitFormat ==
    /\ news_items \in NewsLists
    /\ fmt_pc = "ready"
    /\ one_liner = Return(None)
    /\ IdlePath /\ IdleRank /\ IdleMap /\ IdleFetch /\ IdleMain /\ IdleRun /\ IdlePost

\* text = formatter.format_one_liner(news_items)
CallFormatOneLiner ==
    /\ fmt_pc = "ready"
    /\ one_liner' = FormatOneLiner(news_items)
    /\ fmt_pc' = "done"
    /\ UNCHANGED news_items
    /\ UNCHANGED <<pathVars, rankVars, mapVars, fetchVars, mainVars, runVars, postVars>>

NextFormat == CallFormatOneLiner

SpecFormat == InitFormat /\ [][NextFormat]_vars

----------------------------------------------------------------------------
(* Claims about format_one_liner *)

\* Index of the first line break of s, or 0 when there is none.
FirstBreak(s) ==
    IF \E i \in 1..Len(s) : s[i] = "\n"
    THEN CHOOSE i \in 1..Len(s) : s[i] = "\n" /\ \A j \in 1..(i - 1) : s[j] # "\n"
    ELSE 0

\* The lines of a text; the empty text has none.
RECURSIVE TextLines(_)
TextLines(s) ==
    IF s = <<>> THEN <<>>
    ELSE LET b == FirstBreak(s)
         IN  IF b = 0 THEN <<s>>
             ELSE <<SubSeq(s, 1, b - 1)>> \o
                  (IF b = Len(s) THEN <<<<>>>> ELSE TextLines(SubSeq(s, b + 1, Len(s))))

\* The item has a non-empty title and a non-empty url.
HasTitleAndUrl(item) ==
    /\ Truthy(DictGet(item, KeyTitle, None))
    /\ Truthy(DictGet(item, KeyUrl, None))

\* The line ends with " [<title>](<url>)" of the item, after a text that
\* is the item's emoji when the item carries one.
IsLineOf(line, item) ==
    LET tail == <<" [">> \o item.v[KeyTitle].v \o <<"](">> \o item.v[KeyUrl].v \o <<")">>
        lead == Len(line) - Len(tail)
    IN  /\ lead >= 0
        /\ SubSeq(line, lead + 1, Len(line)) = tail
        /\ (KeyEmoji \in DOMAIN item.v /\ IsStr(item.v[KeyEmoji])) =>
              SubSeq(line, 1, lead) = item.v[KeyEmoji].v

\* C20: format_one_liner returns one line "<emoji> [<title>](<url>)" for
\* each item that has a non-empty title and a non-empty url, in input
\* order, and no line for any other item; the text is empty when every
\* item is skipped.
C20_OneLinePerCompleteItem ==
    fmt_pc = "done" =>
        /\ one_liner.exc = "none"
        /\ IsStr(one_liner.val)
        /\ LET kept == SelectSeq(news_items, HasTitleAndUrl)
               lines == TextLines(one_liner.val.v)
           IN  /\ Len(lines) = Len(kept)
               /\ \A q \in 1..Len(kept) : IsLineOf(lines[q], kept[q])
               /\ kept = <<>> => one_liner.val = Str(<<>>)

\* The call formatted two items around one it skipped.
C20_Witness ==
    /\ fmt_pc = "done"
    /\ Len(news_items) = 3
    /\ HasTitleAndUrl(news_items[1])
    /\ KeyTitle \in DOMAIN news_items[2].v
    /\ ~HasTitleAndUrl(news_items[2])
    /\ HasTitleAndUrl(news_items[3])
    /\ Len(TextLines(one_liner.val.v)) = 2

\* The text before " [" on a line of the item: its emoji part.
EmojiPart(line, item) ==
    SubSeq(line, 1, Len(line) - Len(<<" [">> \o item.v[KeyTitle].v \o <<"](">> \o item.v[KeyUrl].v \o <<")">>))

\* C21: format_one_liner prints the default emoji for every item whose
\* emoji is absent and for every item whose emoji key holds null.
C21_DefaultEmojiForAbsentAndNull ==
    fmt_pc = "done" =>
        LET kept == SelectSeq(news_items, HasTitleAndUrl)
            lines == TextLines(one_liner.val.v)
        IN  \A q \in 1..Len(kept) :
               (KeyEmoji \notin DOMAIN kept[q].v \/ kept[q].v[KeyEmoji] = None) =>
                   EmojiPart(lines[q], kept[q]) = DefaultEmoji.v
----------------------------------------------------------------------------
(* Claims about filter_top_n as a function of its arguments (Spec) *)

\* C24: for every input and every limit n >= 0, filter_top_n(articles,
\* mapping, n) returns the first n elements of the list that
\* filter_top_n(articles, mapping, len(articles)) returns.
C24_TruncationAfterOrdering ==
    (Called /\ n >= 0) =>
        LET full == FilterTopN(articles, response_mapping, Len(articles), today)
        IN  /\ top.exc = "none"
            /\ full.exc = "none"
            /\ top.val.v = SubSeq(full.val.v, 1, Min(n, Len(full.val.v)))

AnnotationKeys == {<<"_orig_index">>, <<"_parsed_at">>}

\* C25: a call of filter_top_n leaves the input list as it was, and the
\* list it returns holds only articles of the input, none of them twice
\* (the articles of an input are pairwise different), and none carrying
\* the keys _orig_index or _parsed_at.
C25_ReturnsInputArticlesUnannotated ==
    [][(pc = "ready" /\ pc' = "done") =>
          /\ articles' = articles
          /\ top'.exc = "none" =>
                LET out == top'.val.v
                IN  /\ \A q \in 1..Len(out) : \E i \in 1..Len(articles) : out[q] = articles[i]
                    /\ \A q, r \in 1..Len(out) : q # r => out[q] # out[r]
                    /\ \A q \in 1..Len(out) :
                          IsDict(out[q]) => AnnotationKeys \cap DOMAIN out[q].v = {}]_vars

\* The call ranked three articles and returned the two newest, the last
\* article of the input first.
C25_Witness ==
    /\ Returned
    /\ AllParsed
    /\ Len(articles) = 3
    /\ n = 2
    /\ Len(top.val.v) = 2
    /\ top.val.v[1] = articles[3]
    /\ top.val.v[2] = articles[1]

\* C26: a call of filter_top_n returns what the call with the same
\* articles, mapping and limit returns on any other date of the clock.
C26_IndependentOfClock ==
    Called =>
        \A clock \in ClockDates :
            FilterTopN(articles, response_mapping, n, clock) = top

\* C27: for every limit n >= 0, when filter_top_n returns, the call on the
\* returned list with the same mapping and limit returns the same list.
C27_Idempotent ==
    (Returned /\ n >= 0) =>
        FilterTopN(top.val.v, response_mapping, n, today) = top

\* The call returned, reordered, two articles of equal timestamp and one
\* whose timestamp does not parse.
C27_Witness ==
    /\ Returned
    /\ n = 3
    /\ Len(articles) = 3
    /\ ParsedAtInput(1) = None
    /\ ParsedAtInput(2) # None
    /\ ParsedAtInput(2) = ParsedAtInput(3)
    /\ top.val.v = <<articles[2], articles[3], articles[1]>>
----------------------------------------------------------------------------
(* core/gemini_filters.py and core/gemini_processor.py: the Gemini stage *)

KeyMessage == <<"message">>

\* datetime.strptime(text, "%Y-%m-%dT%H:%M:%SZ"): a text of another shape
\* raises ValueError, a value that is not a str raises TypeError.
Strptime(value) ==
    IF ~IsStr(value) THEN Raise("TypeError")
    ELSE IF /\ Len(value.v) = 3
            /\ value.v[1] \in DateTokens
            /\ value.v[2] \in TimeTokens
            /\ value.v[3] = "Z"
         THEN Return(Datetime(TRUE, DayHours(value.v[1]) + HourOf(value.v[2])))
         ELSE Raise("ValueError")

\* ArticleFilter.filter_recent_articles(articles, days): the articles that
\* carry publishedAt, cut down to title and url.  The timestamps of the
\* domain all lie within the last two days of the run.
RECURSIVE FilterRecentArticles(_)
FilterRecentArticles(arts) ==
    IF arts = <<>>
    THEN Return(EmptyList)
    ELSE LET article == Head(arts)
             rest == FilterRecentArticles(Tail(arts))
         IN  IF KeyPublishedAt \notin DOMAIN article.v
             THEN rest
             ELSE IF Strptime(article.v[KeyPublishedAt]).exc # "none"
             THEN Strptime(article.v[KeyPublishedAt])
             ELSE IF KeyTitle \notin DOMAIN article.v \/ KeyUrl \notin DOMAIN article.v
             THEN Raise("KeyError")
             ELSE IF rest.exc # "none"
             THEN rest
             ELSE Return(List(<<Dict((KeyTitle :> article.v[KeyTitle])
                                     @@ (KeyUrl :> article.v[KeyUrl]))>> \o rest.val.v))

\* GeminiNewsProcessor.process_articles(articles).  reply is what the
\* Gemini API does with the request: it selects the articles it was sent,
\* or the request fails with a ClientError and analyze_titles returns [].
ProcessArticles(arts, reply) ==
    LET recent_articles == FilterRecentArticles(arts)
    IN  IF recent_articles.exc # "none" THEN recent_articles
        ELSE IF recent_articles.val = EmptyList
        THEN Return(List(<<Dict(KeyMessage :> Str(<<"No articles found">>))>>))
        ELSE IF reply = "client_error" THEN Return(EmptyList)
        ELSE recent_articles

\* gemini_processor.main(): raises ValueError without an API key; loads
\* latest_news.json, processes and saves inside try, and on any Exception
\* logs it and returns.  stage is the step the stage ended in, out what it
\* wrote to filtered_news.json (None when it wrote nothing).
GeminiMain(key, input_file, reply, writable) ==
    IF ~Truthy(key)
    THEN [exc |-> "ValueError", stage |-> "no_key", out |-> None]
    ELSE IF ~IsList(input_file)
    THEN [exc |-> "none", stage |-> "load_failed", out |-> None]
    ELSE LET filtered_articles == ProcessArticles(input_file.v, reply)
         IN  IF filtered_articles.exc # "none"
             THEN [exc |-> "none", stage |-> "process_failed", out |-> None]
             ELSE IF ~writable
             THEN [exc |-> "none", stage |-> "save_failed", out |-> None]
             ELSE [exc |-> "none", stage |-> "ok", out |-> filtered_articles.val]

----------------------------------------------------------------------------
(* SpecRun: main.py from the fetch loop on, get_all_sources yielding the *)
(* sources of the configuration                                          *)

\* api_config_loader.get_all_sources(): the sources of the loaded
\* configuration, in file order.
GetAllSourcesYield(config) == Return(config.v[KeySources])

MaxRunSources == 3

\* The j-th article that source i returns.
RunArticle(i, j, stamps) ==
    Dict([key \in {KeyTitle, KeyUrl} \cup DOMAIN stamps |->
            IF key = KeyTitle THEN Str(<<"Title ", Digits[i], Digits[j]>>)
            ELSE IF key = KeyUrl THEN Str(<<"https://news/", Digits[i], Digits[j]>>)
            ELSE stamps[key]])

ZuluStamp == KeyPublishedAt :> Str(<<"2025-09-12", "T10:00", "Z">>)
OffsetStamp == KeyPublishedAt :> Str(<<"2025-09-12", "T12:00", "+01:00">>)

\* What fetch_latest_news may return for source i: nothing, one article
\* with a UTC timestamp, one with an offset timestamp, or two articles, the
\* second without publishedAt.
FetchedAt(i) ==
    {EmptyList,
     List(<<RunArticle(i, 1, ZuluStamp)>>),
     List(<<RunArticle(i, 1, OffsetStamp)>>),
     List(<<RunArticle(i, 1, ZuluStamp), RunArticle(i, 2, <<>>)>>)}

RunSourceNamed(i) == Dict(KeyName :> Str(<<"source ", Digits[i]>>))

RunConfigs ==
    {Dict(KeySources :> List([i \in 1..len |-> RunSourceNamed(i)])) : len \in 0..MaxRunSources}

GeminiKeys == {None, Str(<<>>), Str(<<"secret">>)}

\* filtered_news.json as an earlier run left it.
StaleFiltered == List(<<Dict((KeyTitle :> Str(<<"Old title">>)) @@ (KeyUrl :> Str(<<"https://old">>)))>>)

InitRun ==
    /\ run_config \in RunConfigs
    /\ gemini_key \in GeminiKeys
    /\ run_pc = "loaded"
    /\ run_sources = Return(None)
    /\ run_idx = 0
    /\ latest_news = Unbound
    /\ all_latest_news = EmptyList
    /\ run_returned = <<>>
    /\ latest_news_json = FileMissing
    /\ gemini_stage = "not_run"
    /\ filtered_news_json \in {FileMissing, StaleFiltered}
    /\ discord_stage = "not_started"
    /\ run_handler = "none"
    /\ IdlePath /\ IdleRank /\ IdleMap /\ IdleFetch /\ IdleMain /\ IdleFormat /\ IdlePost

\* all_latest_news = []; for source in api_config_loader.get_all_sources():
RunGetAllSources ==
    /\ run_pc = "loaded"
    /\ run_sources' = GetAllSourcesYield(run_config)
    /\ all_latest_news' = EmptyList
    /\ run_pc' = "fetching"
    /\ UNCHANGED <<run_config, gemini_key, run_idx, latest_news, run_returned,
                   latest_news_json, gemini_stage, filtered_news_json, discord_stage,
                   run_handler>>
    /\ UNCHANGED <<pathVars, rankVars, mapVars, fetchVars, mainVars, fmtVars, postVars>>

\* One turn of the loop: latest_news = news_fetcher.fetch_latest_news(name);
\* all_latest_news.extend(latest_news)
RunFetchSource ==
    /\ run_pc = "fetching"
    /\ run_idx < Len(run_sources.val.v)
    /\ \E fetched \in FetchedAt(run_idx + 1) :
          /\ latest_news' = fetched
          /\ all_latest_news' = List(all_latest_news.v \o fetched.v)
          /\ run_returned' = Append(run_returned, fetched)
    /\ run_idx' = run_idx + 1
    /\ UNCHANGED <<run_config, gemini_key, run_pc, run_sources, latest_news_json,
                   gemini_stage, filtered_news_json, discord_stage, run_handler>>
    /\ UNCHANGED <<pathVars, rankVars, mapVars, fetchVars, mainVars, fmtVars, postVars>>

\* if not latest_news: log a warning (the run then ends); else go on to
\* save.  With no source the name latest_news is unbound: NameError.
RunTestLatestNews ==
    /\ run_pc = "fetching"
    /\ run_idx = Len(run_sources.val.v)
    /\ IF latest_news = Unbound
       THEN run_pc' = "raised" /\ run_handler' = "NameError"
       ELSE /\ run_pc' = IF ~Truthy(latest_news) THEN "finished" ELSE "saving"
            /\ UNCHANGED run_handler
    /\ UNCHANGED <<run_config, gemini_key, run_sources, run_idx, latest_news,
                   all_latest_news, run_returned, latest_news_json, gemini_stage,
                   filtered_news_json, discord_stage>>
    /\ UNCHANGED <<pathVars, rankVars, mapVars, fetchVars, mainVars, fmtVars, postVars>>

\* NewsSaver.save_news_to_file(latest_news, OUTPUT_FILE): writes the list,
\* or logs and raises again when the file cannot be written.
RunSaveNews ==
    /\ run_pc = "saving"
    /\ \E writable \in BOOLEAN :
          IF writable
          THEN /\ latest_news_json' = latest_news
               /\ run_pc' = "gemini"
               /\ UNCHANGED run_handler
          ELSE /\ run_pc' = "raised"
               /\ run_handler' = "OSError"
               /\ UNCHANGED latest_news_json
    /\ UNCHANGED <<run_config, gemini_key, run_sources, run_idx, latest_news,
                   all_latest_news, run_returned, gemini_stage, filtered_news_json,
                   discord_stage>>
    /\ UNCHANGED <<pathVars, rankVars, mapVars, fetchVars, mainVars, fmtVars, postVars>>

\* asyncio.run(gemini_main())
RunGeminiStage ==
    /\ run_pc = "gemini"
    /\ \E reply \in {"selected", "client_error"}, writable \in BOOLEAN :
          LET stage == GeminiMain(gemini_key, latest_news_json, reply, writable)
          IN  /\ gemini_stage' = stage.stage
              /\ filtered_news_json' = IF stage.out # None THEN stage.out ELSE filtered_news_json
              /\ IF stage.exc # "none"
                 THEN run_pc' = "raised" /\ run_handler' = stage.exc
                 ELSE run_pc' = "discord" /\ UNCHANGED run_handler
    /\ UNCHANGED <<run_config, gemini_key, run_sources, run_idx, latest_news,
                   all_latest_news, run_returned, latest_news_json, discord_stage>>
    /\ UNCHANGED <<pathVars, rankVars, mapVars, fetchVars, mainVars, fmtVars, postVars>>

\* api_key = os.environ.get("GEMINI_API_KEY"); raise EnvironmentError
\* without one; NewsDiscordFormatter(api_key).process(filtered_news.json, ...)
RunDiscordStage ==
    /\ run_pc = "discord"
    /\ IF ~Truthy(gemini_key)
       THEN /\ run_pc' = "raised"
            /\ run_handler' = "EnvironmentError"
            /\ UNCHANGED discord_stage
       ELSE /\ discord_stage' = "started"
            /\ run_pc' = "finished"
            /\ UNCHANGED run_handler
    /\ UNCHANGED <<run_config, gemini_key, run_sources, run_idx, latest_news,
                   all_latest_news, run_returned, latest_news_json, gemini_stage,
                   filtered_news_json>>
    /\ UNCHANGED <<pathVars, rankVars, mapVars, fetchVars, mainVars, fmtVars, postVars>>

\* except Exception as e: logger.critical(...).  The run ends.
RunHandleException ==
    /\ run_pc = "raised"
    /\ run_pc' = "finished"
    /\ UNCHANGED <<run_config, gemini_key, run_sources, run_idx, latest_news,
                   all_latest_news, run_returned, latest_news_json, gemini_stage,
                   filtered_news_json, discord_stage, run_handler>>
    /\ UNCHANGED <<pathVars, rankVars, mapVars, fetchVars, mainVars, fmtVars, postVars>>

NextRun ==
    \/ RunGetAllSources
    \/ RunFetchSource
    \/ RunTestLatestNews
    \/ RunSaveNews
    \/ RunGeminiStage
    \/ RunDiscordStage
    \/ RunHandleException

SpecRun == InitRun /\ [][NextRun]_vars

----------------------------------------------------------------------------
(* Claims about the run of main.py *)

\* The run reached its last line without an exception.
RunEnded == run_pc = "finished" /\ run_handler = "none"

\* The articles latest_news.json holds (none when the file was not written).
WrittenArticles ==
    IF IsList(latest_news_json)
    THEN {latest_news_json.v[q] : q \in 1..Len(latest_news_json.v)}
    ELSE {}

\* C28: when a run over the configured sources ends, every article that
\* fetch_latest_news returned for any source is in latest_news.json, and
\* the Gemini stage was left out only if no source returned an article.
C28_EveryFetchedArticleSaved ==
    RunEnded =>
        /\ \A i \in 1..Len(run_returned) : \A q \in 1..Len(run_returned[i].v) :
              run_returned[i].v[q] \in WrittenArticles
        /\ gemini_stage = "not_run" =>
              \A i \in 1..Len(run_returned) : run_returned[i] = EmptyList

\* C29: the Discord stage starts only when the Gemini stage of the run
\* loaded, processed and saved without an error.
C29_DiscordOnlyAfterGeminiSuccess ==
    discord_stage = "started" => gemini_stage = "ok"
----------------------------------------------------------------------------
(* Texts with their lengths, for scripts/post_filtered_to_discord.py and *)
(* scripts/preview_discord_post.py.  A text is a sequence of pieces; the *)
(* piece [t, i, take] is the first take characters of the string named   *)
(* by t and i, so that len() and slicing count characters.               *)

Piece(t, i, take) == [t |-> t, i |-> i, take |-> take]

\* A literal of the given length.
Lit(t, len) == <<Piece(t, 0, len)>>

\* len(text)
RECURSIVE CharLen(_)
CharLen(text) ==
    IF text = <<>> THEN 0 ELSE Head(text).take + CharLen(Tail(text))

\* text[:k] for k >= 0
RECURSIVE Prefix(_, _)
Prefix(text, k) ==
    IF k <= 0 \/ text = <<>>
    THEN <<>>
    ELSE IF Head(text).take <= k
         THEN <<Head(text)>> \o Prefix(Tail(text), k - Head(text).take)
         ELSE <<[Head(text) EXCEPT !.take = k]>>

Newline == Lit("\n", 1)

\* "\n".join(lines)
RECURSIVE JoinNewline(_)
JoinNewline(lines) ==
    IF lines = <<>> THEN <<>>
    ELSE IF Len(lines) = 1 THEN lines[1]
    ELSE lines[1] \o Newline \o JoinNewline(Tail(lines))

\* x or y
PyOr(x, y) == IF Truthy(x) THEN x ELSE y

\* a.get(key): AttributeError when a is not a dict (a str, a number, None).
Get(a, key) ==
    IF IsDict(a) THEN Return(DictGet(a, key, None)) ELSE Raise("AttributeError")

----------------------------------------------------------------------------
(* File names *)

FilteredPrefix == Lit("filtered_", 9)
EnrichedPrefix == Lit("enriched_", 9)
JsonSuffix == Lit(".json", 5)
Underscore == Lit("_", 1)
Space == Lit(" ", 1)

\* name.replace(old, new), old being one piece of the name
RECURSIVE Replace(_, _, _)
Replace(name, old, new) ==
    IF name = <<>> THEN <<>>
    ELSE (IF <<Head(name)>> = old THEN new ELSE <<Head(name)>>)
         \o Replace(Tail(name), old, new)

\* str.title(): every word starts with a capital letter.
Title(name) ==
    [p \in 1..Len(name) |->
        IF name[p].t = "word" THEN [name[p] EXCEPT !.t = "Word"] ELSE name[p]]

\* friendly_title(filename), and the same chain of replace calls and
\* title() in the poster.
FriendlyTitle(name) ==
    Title(Replace(Replace(Replace(Replace(name, FilteredPrefix, <<>>),
                                  EnrichedPrefix, <<>>),
                          JsonSuffix, <<>>),
                  Underscore, Space))

\* f.replace("filtered_", "enriched_")
EnrichedCandidate(f) == Replace(f, FilteredPrefix, EnrichedPrefix)
----------------------------------------------------------------------------
(* scripts/post_filtered_to_discord.py *)

KeyStoryText == <<"story_text">>

\* max_len = 1900
MaxLen == 1900

\* urls[:10]
PreviewUrlCap == 10

Bold == Lit("**", 2)
TruncatedMark == Lit("\n... (truncated)", 16)
\* marker_start and marker_end: the opening fence of a json block with its
\* line breaks (9 characters) and the closing fence (4 characters).
MarkerStart == Lit("\n(fence)json\n", 9)
MarkerEnd == Lit("\n(fence)", 4)
\* "AI-Driven Breaking News <em dash> "
FallbackHeading == Lit("AI-Driven Breaking News - ", 26)
Untitled == Lit("Untitled", 8)
\* " <em dash> "
Dash == Lit(" - ", 3)

\* A file that does not exist.
NoFile == [k |-> "nofile", json |-> NotJson, text |-> <<>>]

\* The file to read: the enriched one when it exists.
Chosen(file) ==
    IF file.enriched.k # "nofile"
    THEN [name |-> EnrichedCandidate(file.f), data |-> file.enriched]
    ELSE [name |-> file.f, data |-> file.data]

\* WEBHOOK = args.webhook or os.environ.get("DISCORD_WEBHOOK_URL")
Webhook(args, env) == PyOr(args.webhook, env)

\* WEBHOOK and (WEBHOOK.startswith("http://") or WEBHOOK.startswith("https://"))
ValidWebhook(webhook) ==
    /\ Truthy(webhook)
    /\ webhook.v[1] \in {Piece("http://", 0, 7), Piece("https://", 0, 8)}

\* urls = [a.get("url") or a.get("link") for a in parsed if (...)]
RECURSIVE GroupedUrls(_)
GroupedUrls(parsed) ==
    IF parsed = <<>>
    THEN Return(<<>>)
    ELSE LET a == Head(parsed)
         IN  IF Get(a, KeyUrl).exc # "none"
             THEN Get(a, KeyUrl)
             ELSE LET u == PyOr(Get(a, KeyUrl).val, Get(a, KeyLink).val)
                      rest == GroupedUrls(Tail(parsed))
                  IN  IF rest.exc # "none" THEN rest
                      ELSE Return((IF Truthy(u) THEN <<u>> ELSE <<>>) \o rest.val)

\* The truncation mutated: the cut is made at max_len.
GroupedTruncateAtMaxLen(content) ==
    IF CharLen(content) > MaxLen
    THEN Prefix(content, MaxLen) \o TruncatedMark
    ELSE content

\* if len(content) > max_len: content = content[: max_len - 20] + "\n... (truncated)"
GroupedTruncate(content) ==
    IF CharLen(content) > MaxLen
    THEN Prefix(content, MaxLen - 20) \o TruncatedMark
    ELSE content

\* The content of the grouped message: "**display**" and the URLs, one per
\* line, truncated.  "\n".join raises TypeError for a URL that is not a str.
GroupedContent(chosen_name, parsed) ==
    LET urls == GroupedUrls(parsed)
    IN  IF urls.exc # "none" THEN urls
        ELSE IF \E q \in 1..Len(urls.val) : ~IsStr(urls.val[q]) THEN Raise("TypeError")
        ELSE Return(GroupedTruncate(JoinNewline(
                <<Bold \o FriendlyTitle(chosen_name) \o Bold>>
                \o [q \in 1..Len(urls.val) |-> urls.val[q].v])))

\* The steps after the grouped payload is built: nothing is sent on a dry
\* run, with an invalid webhook, or when requests is the stand-in
\* namespace (requests.post then raises AttributeError, which is caught).
SendGrouped(args, webhook, requests, payload) ==
    IF args.dry_run THEN <<>>
    ELSE IF ~ValidWebhook(webhook) THEN <<>>
    ELSE IF requests # "module" THEN <<>>
    ELSE <<payload>>

\* The payload of one article in per-article mode.
ArticlePayload(args, art) ==
    IF ~IsDict(art) THEN Raise("AttributeError")
    ELSE LET a_title == PyOr(PyOr(DictGet(art, KeyTitle, None), DictGet(art, KeyHeadline, None)),
                             Str(Untitled))
             a_url == PyOr(PyOr(DictGet(art, KeyUrl, None), DictGet(art, KeyLink, None)), Str(<<>>))
             a_desc == PyOr(PyOr(DictGet(art, KeyDescription, None),
                                 DictGet(art, KeyStoryText, None)), Str(<<>>))
             link == IF Truthy(a_url)
                     THEN Lit("[", 1) \o a_title.v \o Lit("](", 2) \o a_url.v \o Lit(")", 1)
                     ELSE a_title.v
         IN  IF args.per_article_embed
             THEN Return([username |-> "Youth Innovations", kind |-> "embeds",
                          content |-> <<>>,
                          embed |-> [title |-> a_title.v, url |-> a_url.v,
                                     description |-> Prefix(a_desc.v, 2048)]])
             ELSE Return([username |-> "Youth Innovations", kind |-> "content",
                          content |-> IF Truthy(a_desc)
                                      THEN link \o Dash \o Prefix(a_desc.v, 300)
                                      ELSE link,
                          embed |-> [title |-> <<>>, url |-> <<>>, description |-> <<>>]])

\* The per-article loop mutated: no "if args.dry_run: continue".
RECURSIVE PerArticleLoopIgnoringDryRun(_, _, _, _)
PerArticleLoopIgnoringDryRun(args, webhook, requests, arts) ==
    IF arts = <<>>
    THEN [posts |-> <<>>, exc |-> "none"]
    ELSE LET payload == ArticlePayload(args, Head(arts))
         IN  IF payload.exc # "none" THEN [posts |-> <<>>, exc |-> payload.exc]
             ELSE IF ~ValidWebhook(webhook) THEN [posts |-> <<>>, exc |-> "none"]
             ELSE LET rest == PerArticleLoopIgnoringDryRun(args, webhook, requests, Tail(arts))
                  IN  [posts |-> (IF requests = "module" THEN <<payload.val>> ELSE <<>>)
                                 \o rest.posts,
                       exc |-> rest.exc]

\* for idx, art in enumerate(parsed, start=1): build the payload; continue
\* on a dry run; break with an invalid webhook; else requests.post.  An
\* element that is not a dict raises AttributeError after the articles
\* before it were sent.
RECURSIVE PerArticleLoop(_, _, _, _)
PerArticleLoop(args, webhook, requests, arts) ==
    IF arts = <<>>
    THEN [posts |-> <<>>, exc |-> "none"]
    ELSE LET payload == ArticlePayload(args, Head(arts))
         IN  IF payload.exc # "none" THEN [posts |-> <<>>, exc |-> payload.exc]
             ELSE IF args.dry_run THEN PerArticleLoop(args, webhook, requests, Tail(arts))
             ELSE IF ~ValidWebhook(webhook) THEN [posts |-> <<>>, exc |-> "none"]
             ELSE LET rest == PerArticleLoop(args, webhook, requests, Tail(arts))
                  IN  [posts |-> (IF requests = "module" THEN <<payload.val>> ELSE <<>>)
                                 \o rest.posts,
                       exc |-> rest.exc]

\* The fallback content: heading and a json block with the text of the file,
\* cut so that the whole has max_len characters.
FallbackContent(f, text) ==
    LET title == FallbackHeading \o f
        content == title \o MarkerStart \o text \o MarkerEnd
    IN  IF CharLen(content) > MaxLen
        THEN LET reserve == CharLen(title) + CharLen(MarkerStart) + CharLen(MarkerEnd)
                            + CharLen(TruncatedMark)
                 allowed == IF MaxLen - reserve < 0 THEN MaxLen ELSE MaxLen - reserve
             IN  title \o MarkerStart \o Prefix(text, allowed) \o TruncatedMark \o MarkerEnd
        ELSE content

\* The steps after the fallback payload is built.
SendFallback(args, webhook, requests, payload) ==
    IF args.dry_run THEN <<>>
    ELSE IF ~ValidWebhook(webhook) THEN <<>>
    ELSE IF requests # "module" THEN <<>>
    ELSE <<payload>>

ContentPayload(content) ==
    [username |-> "Youth Innovations", kind |-> "content", content |-> content,
     embed |-> [title |-> <<>>, url |-> <<>>, description |-> <<>>]]

\* One turn of "for f in files": what was built (path and content) and
\* what was sent.  An exception ends the turn in the outer except clause.
ProcessFile(args, webhook, requests, file) ==
    LET chosen == Chosen(file)
        parsed == chosen.data.json
    IN  IF parsed # NotJson /\ IsList(parsed)
        THEN IF ~args.per_article
             THEN LET content == GroupedContent(chosen.name, parsed.v)
                  IN  IF content.exc # "none"
                      THEN [path |-> "error", content |-> <<>>, posts |-> <<>>]
                      ELSE [path |-> "grouped", content |-> content.val,
                            posts |-> SendGrouped(args, webhook, requests,
                                                  ContentPayload(content.val))]
             ELSE LET loop == PerArticleLoop(args, webhook, requests, parsed.v)
                  IN  [path |-> IF loop.exc # "none" THEN "error" ELSE "per_article",
                       content |-> <<>>, posts |-> loop.posts]
        ELSE LET content == FallbackContent(file.f, chosen.data.text)
             IN  [path |-> "fallback", content |-> content,
                  posts |-> SendFallback(args, webhook, requests, ContentPayload(content))]

----------------------------------------------------------------------------
(* scripts/preview_discord_post.py *)

\* load_articles(path): json.load, or [] on any exception.
LoadArticles(data) == IF data.json = NotJson THEN EmptyList ELSE data.json

\* The loop over articles: url or link of every dict, in order.  Iterating
\* a dict yields its keys, which are not dicts.
RECURSIVE PreviewUrlsOf(_)
PreviewUrlsOf(items) ==
    IF items = <<>>
    THEN <<>>
    ELSE LET a == Head(items)
             u == IF IsDict(a) THEN PyOr(DictGet(a, KeyUrl, None), DictGet(a, KeyLink, None))
                  ELSE None
         IN  (IF Truthy(u) THEN <<u>> ELSE <<>>) \o PreviewUrlsOf(Tail(items))

PreviewUrls(loaded) ==
    IF IsList(loaded) THEN PreviewUrlsOf(loaded.v) ELSE <<>>

\* build_message(title, urls)
BuildMessage(title, urls) ==
    JoinNewline(<<Bold \o title \o Bold>>
                \o [q \in 1..Min(PreviewUrlCap, Len(urls)) |-> urls[q].v])

\* The message the preview prints for a file.
PreviewMessage(file) ==
    LET chosen == Chosen(file)
    IN  BuildMessage(FriendlyTitle(chosen.name), PreviewUrls(LoadArticles(chosen.data)))
----------------------------------------------------------------------------
(* Bounded input domains of the two scripts *)

MaxFiles == 2

\* The number of URLs of the longest list that fits a message untruncated.
MaxUrls == 11

\* The longest file name a directory holds (NAME_MAX).
NameMax == 255

UrlText(i, len) == <<Piece("https://news/", i, len)>>
TitleText(i) == <<Piece("Title ", i, 7)>>

UrlArticle(i, len) ==
    Dict((KeyTitle :> Str(TitleText(i))) @@ (KeyUrl :> Str(UrlText(i, len))))
LinkArticle(i, len) ==
    Dict((KeyHeadline :> Str(TitleText(i))) @@ (KeyLink :> Str(UrlText(i, len)))
         @@ (KeyDescription :> Str(<<Piece("Description ", i, 400)>>)))
TitleOnlyArticle(i) == Dict(KeyTitle :> Str(TitleText(i)))

\* count articles with URLs of len characters, the last of lastLen.
UrlArticles(count, len, lastLen) ==
    List([i \in 1..count |-> UrlArticle(i, IF i = count THEN lastLen ELSE len)])

\* A file's bytes: what json.loads makes of them and their text.
JsonFile(value) == [k |-> "file", json |-> value, text |-> <<Piece("json text", 0, 600)>>]
TextFile(len) == [k |-> "file", json |-> NotJson, text |-> <<Piece("raw text", 0, len)>>]

\* filtered_<word>.json, the word of the given length
FilteredName(c, len) == FilteredPrefix \o <<Piece("word", c, len)>> \o JsonSuffix

File(name, data, enriched) == [f |-> name, data |-> data, enriched |-> enriched]

\* The files that may stand at position c of the sorted directory listing
\* (the word of the name grows with c): lists of articles at the odd
\* positions, other contents at the even ones.  With a four-letter word
\* the header "**Word**" has 8 characters, so MaxUrls URLs of 171
\* characters make a message of exactly MaxLen characters when MaxUrls is
\* 11, and the fallback heading and markers take 57 characters.
FilesAt(c) ==
    IF c % 2 = 1
    THEN {File(FilteredName(c, 4), JsonFile(data), NoFile) :
             data \in {UrlArticles(MaxUrls, 171, 171),
                       UrlArticles(MaxUrls, 171, 172),
                       UrlArticles(MaxUrls + 1, 200, 200),
                       List(<<UrlArticle(1, 20), Str(UrlText(2, 20)), UrlArticle(3, 20)>>)}}
         \cup {File(FilteredName(c, 4),
                    JsonFile(UrlArticles(2, 20, 20)),
                    JsonFile(List(<<LinkArticle(1, 30), TitleOnlyArticle(2), UrlArticle(3, 30)>>)))}
    ELSE {File(FilteredName(c, 4), data, NoFile) :
             data \in {JsonFile(EmptyList),
                       JsonFile(Dict(KeyMessage :> Str(<<Piece("No articles found", 0, 17)>>))),
                       TextFile(MaxLen - 57),
                       TextFile(MaxLen - 56)}}
         \cup {File(FilteredName(c, NameMax - 14), TextFile(5000), NoFile)}

RECURSIVE FileListsOfLen(_)
FileListsOfLen(len) ==
    IF len = 0
    THEN {<<>>}
    ELSE {Append(init, file) : init \in FileListsOfLen(len - 1), file \in FilesAt(len)}

FileLists == UNION {FileListsOfLen(len) : len \in 0..MaxFiles}

ValidUrl == Str(<<Piece("https://", 0, 8), Piece("discord.com/api/webhooks/1", 0, 26)>>)
InvalidUrl == Str(<<Piece("discord.com/api/webhooks/1", 0, 26)>>)

\* --dry-run, --webhook, --per-article, --per-article-embed (which is read
\* in per-article mode only)
PostArgs ==
    {args \in [dry_run : BOOLEAN, webhook : {None, ValidUrl}, per_article : BOOLEAN,
               per_article_embed : BOOLEAN] :
        args.per_article_embed => args.per_article}

----------------------------------------------------------------------------
(* SpecPost: one run of each script over the same directory *)

InitPost ==
    /\ po_args \in PostArgs
    /\ po_environ \in {None, InvalidUrl}
    /\ po_requests \in {"module", "namespace"}
    /\ po_files \in FileLists
    /\ po_pc = "start"
    /\ po_idx = 0
    /\ po_built = <<>>
    /\ posts = <<>>
    /\ pv_idx = 0
    /\ pv_messages = <<>>
    /\ IdlePath /\ IdleRank /\ IdleMap /\ IdleFetch /\ IdleMain /\ IdleFormat /\ IdleRun

\* The script up to the loop: exit 2 without a webhook unless --dry-run,
\* exit 0 without files.
PostStart ==
    /\ po_pc = "start"
    /\ po_pc' = IF ~Truthy(Webhook(po_args, po_environ)) /\ ~po_args.dry_run THEN "exit2"
                ELSE IF po_files = <<>> THEN "exit0"
                ELSE "running"
    /\ UNCHANGED <<po_args, po_environ, po_requests, po_files, po_idx, po_built, posts,
                   pv_idx, pv_messages>>
    /\ UNCHANGED <<pathVars, rankVars, mapVars, fetchVars, mainVars, fmtVars, runVars>>

\* One turn of "for f in files"; after the last one the script prints Done.
PostFile ==
    /\ po_pc = "running"
    /\ LET turn == ProcessFile(po_args, Webhook(po_args, po_environ), po_requests,
                               po_files[po_idx + 1])
       IN  /\ po_built' = Append(po_built, [path |-> turn.path, content |-> turn.content])
           /\ posts' = posts \o turn.posts
    /\ po_idx' = po_idx + 1
    /\ po_pc' = IF po_idx' = Len(po_files) THEN "done" ELSE "running"
    /\ UNCHANGED <<po_args, po_environ, po_requests, po_files, pv_idx, pv_messages>>
    /\ UNCHANGED <<pathVars, rankVars, mapVars, fetchVars, mainVars, fmtVars, runVars>>

\* One turn of the loop of the preview's main().
PreviewFile ==
    /\ pv_idx < Len(po_files)
    /\ pv_messages' = Append(pv_messages, PreviewMessage(po_files[pv_idx + 1]))
    /\ pv_idx' = pv_idx + 1
    /\ UNCHANGED <<po_args, po_environ, po_requests, po_files, po_pc, po_idx, po_built, posts>>
    /\ UNCHANGED <<pathVars, rankVars, mapVars, fetchVars, mainVars, fmtVars, runVars>>

NextPost ==
    \/ PostStart
    \/ PostFile
    \/ PreviewFile

SpecPost == InitPost /\ [][NextPost]_vars

----------------------------------------------------------------------------
(* Claims about the two scripts *)

\* The paths the poster took for the files processed so far.
PathsTaken == {po_built[i].path : i \in 1..Len(po_built)}

\* C22: a run with --dry-run sends no POST, for any file on any path and
\* whatever the other flags.
C22_DryRunSendsNothing ==
    po_args.dry_run => posts = <<>>

\* A dry run with a valid webhook and the requests module went through a
\* list file in per-article mode and a file on the fallback path.
C22_Witness ==
    /\ po_args.dry_run
    /\ po_pc = "done"
    /\ ValidWebhook(Webhook(po_args, po_environ))
    /\ po_requests = "module"
    /\ PathsTaken = {"per_article", "fallback"}
    /\ \E i \in 1..Len(po_files) :
          po_built[i].path = "per_article" /\ Len(Chosen(po_files[i]).data.json.v) > 1

\* C23: for every file holding a JSON list, the message the preview
\* prints is the content the poster builds in grouped mode.
C23_PreviewEqualsGroupedContent ==
    ~po_args.per_article =>
        \A i \in 1..Min(Len(po_built), Len(pv_messages)) :
            IsList(Chosen(po_files[i]).data.json) =>
                /\ po_built[i].path = "grouped"
                /\ po_built[i].content = pv_messages[i]

\* C30: the content built on the grouped path and on the fallback path
\* has at most 1900 characters.
C30_ContentAtMostMaxLen ==
    \A i \in 1..Len(po_built) :
        po_built[i].path \in {"grouped", "fallback"} =>
            CharLen(po_built[i].content) <= MaxLen

\* The run truncated a grouped message and a fallback message.
C30_Witness ==
    /\ Len(po_built) = 2
    /\ po_built[1].path = "grouped"
    /\ po_built[1].content[Len(po_built[1].content)] = TruncatedMark[1]
    /\ CharLen(po_built[1].content) = MaxLen - 4
    /\ po_built[2].path = "fallback"
    /\ Len(po_files[2].f) = 3
    /\ po_files[2].f[2].take = NameMax - 14
    /\ CharLen(po_built[2].content) = MaxLen

====
